---- MODULE Spec2Model ----
(***************************************************************************)
(* A model of the cross-process bridging layer of wew: the browser         *)
(* instance controller and its lifecycle guard, the resource stream        *)
(* handler adapter, the render-process message transport, the cookie       *)
(* bridge with its blocking thread bridge, the cookie arguments and        *)
(* records, the runtime that creates instances, the life of the cookie     *)
(* manager object, a render process shared by several instances, and the   *)
(* off-screen render handler.                                              *)
(*                                                                         *)
(* The embedded engine and the embedding host are the environment: the     *)
(* engine may invoke any engine-facing method of a live object at any      *)
(* time, the host may call any exported operation on a handle it holds,    *)
(* and what a host callback returns is chosen freely.                      *)
(***************************************************************************)
EXTENDS Integers, Sequences, FiniteSets, TLC

VARIABLES
    \* ---- browser instance controller (IWebView / IPage) ----
    variant,            \* which controller source the instance is built from
    windowless,         \* cef_settings.windowless_rendering_enabled
    is_running,         \* _is_running (IPage: the negation of _is_closed)
    browser,            \* _browser: NoBrowser or the engine's browser handle
    view_rect,          \* _view_rect (width, height)
    owner,              \* the host's WebView/Page wrapper and the object's life
    closeConfirmed,     \* the engine has delivered OnBeforeClose to this instance
    resizedTo,          \* the size asked by the last Resize that took effect
    closing,            \* what engine and host saw before the first CLOSE
    asked,              \* the size of the most recent Resize call, effective or not
    closeBrowserCalls,  \* how often CloseBrowser(true) was requested
    last,               \* what the last controller operation did and returned
    \* ---- resource stream handlers (IResourceHandler) ----
    factorySet,         \* whether a host RequestHandlerFactory is configured
    handlers,           \* per engine load: the adapter and the calls it has seen
    resLast,            \* what the last resource operation did and returned
    \* ---- render-process message transport (ISubProcess) ----
    sender_browser,     \* MessageSender::_browser
    recv_context,       \* MessageReceiver::_context (0: nullopt)
    recv_callback,      \* MessageReceiver::_callback (0: nullopt)
    liveContext,        \* the script context now live in the frame (0: none yet)
    toRender,           \* host messages in flight to the render process
    sent,               \* how many messages the host has sent
    arrivals,           \* per message received in the render process: its fate
    regAt,              \* per registered callback: the arrivals before it
    msgLast,            \* what the last script-side call did and returned
    toBrowser,          \* process messages in flight from renderer to browser
    scriptSent,         \* messages scripts have sent so far
    hostArrivals,       \* messages the channel has delivered to the controller
    hostGot,            \* payloads handed to the host's on_message, in order
    scriptGot,          \* payloads handed to script callbacks, in order
    hostReady,          \* the controller is running and holds its browser
    \* ---- cookie bridge (ICookieManager, AsyncResult, CookieTask) ----
    store,              \* the engine's cookie store
    ioQueue,            \* tasks posted to the engine's IO thread, oldest first
    calls,              \* per host call: the operation, its result box, its return
    effects,            \* the calls whose engine operation has run, in that order
    \* ---- cookie visits (ICookieManager::Visit*Cookies, ICookieVisitor) ----
    visits,             \* per host call: the visitor wrapper and what it has done
    visitQueue,         \* visit tasks posted to the engine's IO thread, oldest first
    \* ---- cookie data (arguments and records of the ICookieManager calls) ----
    jar,                \* the engine's cookies: url, name and value as engine strings
    jarLast,            \* what the last cookie call was given, did and returned
    \* ---- runtime (IRuntime behind the host's Runtime handle) ----
    rt_is_running,      \* IRuntime::_is_running
    rt_windowless,      \* _cef_settings.windowless_rendering_enabled
    rt_handle,          \* the host's Runtime wrapper: "held" or "deleted"
    webviews,           \* what each create_webview call returned, oldest first
    rtLast,             \* what the last runtime call did and returned
    \* ---- the ICookieManager object behind the host's handle ----
    managerAlive,       \* the object exists (wew_destroy_cookie_manager not called yet)
    usedFreed,          \* a posted task has read the object after it was deleted
    \* ---- one render process serving several instances ----
    shared_receiver,    \* the process's MessageReceiver: _context and _callback
    wire,               \* the instances with a host message on its way to the process
    reached,            \* per delivered message: its instance, and the context it ran in
    contexts,           \* the instances whose script context has been created
    shared_sender,      \* the process's MessageSender: _browser
    routed,             \* per script message: the instance that sent it, the controller that got it
    \* ---- off-screen rendering (IWebViewRender) ----
    popup_rect,         \* _popup_rect
    paintLast           \* what the last render callback was given and did; its
                        \* rect is _texture_rect, which is written before each use

lifeVars == <<variant, windowless, is_running, browser, view_rect, owner,
              closeBrowserCalls, last,
              closeConfirmed, resizedTo, closing, asked>>

resVars == <<factorySet, handlers, resLast>>

upVars == <<toBrowser, scriptSent, hostArrivals, hostGot>>
msgVars == <<sender_browser, recv_context, recv_callback, liveContext, toRender,
             sent, arrivals, regAt, msgLast, upVars, scriptGot, hostReady>>

cookieVars == <<store, ioQueue, calls, effects>>

visitVars == <<visits, visitQueue>>

jarVars == <<jar, jarLast>>

rtVars == <<rt_is_running, rt_windowless, rt_handle, webviews, rtLast>>

mgrVars == <<managerAlive, usedFreed>>

isoVars == <<shared_receiver, wire, reached, contexts, shared_sender, routed>>

paintVars == <<popup_rect, paintLast>>

vars == <<lifeVars, resVars, msgVars, cookieVars, visitVars, jarVars, rtVars, mgrVars, isoVars, paintVars>>

(***************************************************************************)
(* Bounds of the model.                                                    *)
(***************************************************************************)
MaxSize == 2
MaxCloseCalls == 2
MaxReq == 2
MaxCursor == 1
MaxMsgs == 3
MaxRegs == 2
MaxSends == 2
MaxCtx == 2
MaxCalls == 2
MaxRecords == 2
MaxViews == 3

Min(a, b) == IF a < b THEN a ELSE b

(***************************************************************************)
(* Browser instance controller.                                            *)
(***************************************************************************)
NoBrowser == "nullopt"
TheBrowser == "browser"

Variants == {"mono", "sub", "page"}
Sizes == 1..MaxSize
NoRect == [width |-> 0, height |-> 0]

\* The methods of each controller source that start with the running-flag
\* check (CHECK_REFCOUNTING, or "if (_is_closed) return" in IPage).
MonoChecks == {"OnProcessMessageReceived", "OnLoadStart", "OnLoadEnd", "OnLoadError",
               "OnAfterCreated", "DoClose", "OnTitleChange", "GetViewRect", "OnPaint",
               "SendMessage", "Close", "Resize", "SetFocus", "OnBeforePopup",
               "SetDevToolsOpenState", "OnKeyboard"}
SubChecks == {"OnProcessMessageReceived", "SendMessage", "Close", "Resize", "SetFocus",
              "SetDevToolsOpenState", "OnKeyboard"}
PageChecks == {"OnProcessMessageReceived", "OnLoadStart", "OnLoadEnd", "OnLoadError",
               "OnAfterCreated", "SendMessage", "Close", "SetDevToolsOpenState"}

ChecksRunning(m) ==
    CASE variant = "mono" -> m \in MonoChecks
      [] variant = "sub"  -> m \in SubChecks
      [] variant = "page" -> m \in PageChecks

\* The early return of a method that checks the flag.
Stopped(m) == ChecksRunning(m) /\ ~is_running

\* The observation of one operation: its name, who invoked it, the guard's
\* inputs as they were before it, what it returned and which host callbacks
\* and engine calls it made, in order.
Obs(op, kind, ret, rect, hostCalls, engineCalls) ==
    [op |-> op, kind |-> kind, pre_running |-> is_running, pre_browser |-> browser,
     pre_rect |-> view_rect, ret |-> ret, rect |-> rect,
     hostCalls |-> hostCalls, engineCalls |-> engineCalls]

\* A controller operation leaves the other components alone.
LifeFrame == UNCHANGED <<resVars, msgVars, cookieVars, visitVars, jarVars, rtVars, mgrVars, isoVars, paintVars>>

Alive == owner # "destroyed"
Held == owner = "held"

\* What came before the host was first told CLOSE.  doClose: the engine
\* called DoClose; requested: the host was told REQUEST_CLOSE.
NotClosing == [doClose |-> FALSE, requested |-> FALSE]

InitLife ==
    /\ variant \in Variants
    /\ windowless \in BOOLEAN
    /\ is_running = TRUE
    /\ browser = NoBrowser
    /\ view_rect \in [width : Sizes, height : Sizes]
    /\ owner = "held"
    /\ closeConfirmed = FALSE
    /\ resizedTo = NoRect
    /\ closing = NotClosing
    /\ asked = NoRect
    /\ closeBrowserCalls = 0
    /\ last = [op |-> "create", kind |-> "host", pre_running |-> TRUE,
               pre_browser |-> NoBrowser, pre_rect |-> view_rect, ret |-> "webview",
               rect |-> NoRect, hostCalls |-> <<>>, engineCalls |-> <<>>]

\* ---- engine-invoked callbacks ----

OnLoadStart ==
    /\ Alive
    /\ last' = IF Stopped("OnLoadStart")
               THEN Obs("OnLoadStart", "engine", "void", NoRect, <<>>, <<>>)
               ELSE Obs("OnLoadStart", "engine", "void", NoRect, <<"BEFORE_LOAD">>, <<>>)
    /\ UNCHANGED <<variant, windowless, is_running, browser, view_rect, owner, closeBrowserCalls,
                   closeConfirmed, resizedTo, closing, asked>>
    /\ LifeFrame

OnLoadEnd ==
    /\ Alive
    /\ last' = IF Stopped("OnLoadEnd")
               THEN Obs("OnLoadEnd", "engine", "void", NoRect, <<>>, <<>>)
               ELSE Obs("OnLoadEnd", "engine", "void", NoRect, <<"LOADED">>,
                        IF variant = "page" THEN <<>> ELSE <<"SetFocus">>)
    /\ UNCHANGED <<variant, windowless, is_running, browser, view_rect, owner, closeBrowserCalls,
                   closeConfirmed, resizedTo, closing, asked>>
    /\ LifeFrame

OnLoadError ==
    /\ Alive
    /\ last' = IF Stopped("OnLoadError")
               THEN Obs("OnLoadError", "engine", "void", NoRect, <<>>, <<>>)
               ELSE Obs("OnLoadError", "engine", "void", NoRect, <<"LOAD_ERROR">>, <<>>)
    /\ UNCHANGED <<variant, windowless, is_running, browser, view_rect, owner, closeBrowserCalls,
                   closeConfirmed, resizedTo, closing, asked>>
    /\ LifeFrame

OnAfterCreated ==
    /\ Alive
    /\ IF Stopped("OnAfterCreated")
       THEN /\ last' = Obs("OnAfterCreated", "engine", "void", NoRect, <<>>, <<>>)
            /\ UNCHANGED browser
       ELSE /\ last' = Obs("OnAfterCreated", "engine", "void", NoRect, <<>>, <<"WasResized">>)
            /\ browser' = TheBrowser
    /\ UNCHANGED <<variant, windowless, is_running, view_rect, owner, closeBrowserCalls,
                   closeConfirmed, resizedTo, closing, asked>>
    /\ LifeFrame

DoClose ==
    /\ Alive
    /\ last' = IF Stopped("DoClose")
               THEN Obs("DoClose", "engine", "true", NoRect, <<>>, <<>>)
               ELSE Obs("DoClose", "engine", "false", NoRect, <<"REQUEST_CLOSE">>, <<>>)
    /\ closing' = IF closeConfirmed
                  THEN closing
                  ELSE [doClose |-> TRUE,
                        requested |-> closing.requested \/ ~Stopped("DoClose")]
    /\ UNCHANGED <<variant, windowless, is_running, browser, view_rect, owner, closeBrowserCalls,
                   closeConfirmed, resizedTo, asked>>
    /\ LifeFrame

OnBeforeClose ==
    /\ Alive
    /\ last' = Obs("OnBeforeClose", "engine", "void", NoRect, <<"CLOSE">>, <<>>)
    /\ browser' = NoBrowser
    /\ closeConfirmed' = TRUE
    /\ UNCHANGED <<variant, windowless, is_running, view_rect, owner, closeBrowserCalls,
                   resizedTo, closing, asked>>
    /\ LifeFrame

OnTitleChange ==
    /\ Alive
    /\ variant # "page"
    /\ last' = IF Stopped("OnTitleChange")
               THEN Obs("OnTitleChange", "engine", "void", NoRect, <<>>, <<>>)
               ELSE Obs("OnTitleChange", "engine", "void", NoRect, <<"on_title_change">>, <<>>)
    /\ UNCHANGED <<variant, windowless, is_running, browser, view_rect, owner, closeBrowserCalls,
                   closeConfirmed, resizedTo, closing, asked>>
    /\ LifeFrame

GetViewRect ==
    /\ Alive
    /\ variant # "page"
    /\ windowless
    /\ last' = IF Stopped("GetViewRect")
               THEN Obs("GetViewRect", "engine", "void", NoRect, <<>>, <<>>)
               ELSE Obs("GetViewRect", "engine", "void", view_rect, <<>>, <<>>)
    /\ UNCHANGED <<variant, windowless, is_running, browser, view_rect, owner, closeBrowserCalls,
                   closeConfirmed, resizedTo, closing, asked>>
    /\ LifeFrame

OnPaint ==
    /\ Alive
    /\ variant # "page"
    /\ windowless
    /\ \E hasBuffer \in BOOLEAN :
         last' = IF Stopped("OnPaint") \/ ~hasBuffer
                 THEN Obs("OnPaint", "engine", "void", NoRect, <<>>, <<>>)
                 ELSE Obs("OnPaint", "engine", "void", NoRect, <<"on_frame">>, <<>>)
    /\ UNCHANGED <<variant, windowless, is_running, browser, view_rect, owner, closeBrowserCalls,
                   closeConfirmed, resizedTo, closing, asked>>
    /\ LifeFrame

OnProcessMessageReceived ==
    /\ Alive
    /\ last' = IF Stopped("OnProcessMessageReceived") \/ browser = NoBrowser
               THEN Obs("OnProcessMessageReceived", "engine", "false", NoRect, <<>>, <<>>)
               ELSE Obs("OnProcessMessageReceived", "engine", "true", NoRect, <<"on_message">>, <<>>)
    /\ UNCHANGED <<variant, windowless, is_running, browser, view_rect, owner, closeBrowserCalls,
                   closeConfirmed, resizedTo, closing, asked>>
    /\ LifeFrame

\* OnBeforePopup: the popup is cancelled and its target loaded in the
\* browser the engine passed.
OnBeforePopup ==
    /\ Alive
    /\ last' = IF Stopped("OnBeforePopup")
               THEN Obs("OnBeforePopup", "engine", "false", NoRect, <<>>, <<>>)
               ELSE Obs("OnBeforePopup", "engine", "true", NoRect, <<>>, <<"LoadURL">>)
    /\ UNCHANGED <<variant, windowless, is_running, browser, view_rect, owner, closeBrowserCalls,
                   closeConfirmed, resizedTo, closing, asked>>
    /\ LifeFrame

\* ---- host-invoked operations ----

\* Close() that requests the close but neither clears the reference nor
\* flips the flag.
CloseBody_KeepsRunning(op) ==
    IF Stopped("Close") \/ browser = NoBrowser
    THEN /\ last' = Obs(op, "host", "void", NoRect, <<>>, <<>>)
         /\ UNCHANGED <<is_running, browser, closeBrowserCalls>>
    ELSE /\ last' = Obs(op, "host", "void", NoRect, <<>>, <<"CloseBrowser">>)
         /\ closeBrowserCalls' = Min(closeBrowserCalls + 1, MaxCloseCalls)
         /\ UNCHANGED <<is_running, browser>>

\* The body of Close()/IClose(): what it writes and which engine call it makes.
CloseBody(op) ==
    IF Stopped("Close") \/ browser = NoBrowser
    THEN /\ last' = Obs(op, "host", "void", NoRect, <<>>, <<>>)
         /\ UNCHANGED <<is_running, browser, closeBrowserCalls>>
    ELSE /\ last' = Obs(op, "host", "void", NoRect, <<>>, <<"CloseBrowser">>)
         /\ closeBrowserCalls' = Min(closeBrowserCalls + 1, MaxCloseCalls)
         /\ browser' = NoBrowser
         /\ is_running' = FALSE

Close ==
    /\ Held
    /\ CloseBody("Close")
    /\ UNCHANGED <<variant, windowless, view_rect, owner, closeConfirmed, resizedTo, closing, asked>>
    /\ LifeFrame

\* close_webview / close_page: Close(), then the wrapper is deleted.
close_webview ==
    /\ Held
    /\ CloseBody("close_webview")
    /\ owner' = "released"
    /\ UNCHANGED <<variant, windowless, view_rect, closeConfirmed, resizedTo, closing, asked>>
    /\ LifeFrame

\* ~IWebView, run when the engine drops the last reference after the host
\* released its own: it calls Close() once more.  IPage has no destructor body.
Destructor ==
    /\ owner = "released"
    /\ IF variant = "page"
       THEN /\ last' = Obs("Destructor", "host", "void", NoRect, <<>>, <<>>)
            /\ UNCHANGED <<is_running, browser, closeBrowserCalls>>
       ELSE CloseBody("Destructor")
    /\ owner' = "destroyed"
    /\ UNCHANGED <<variant, windowless, view_rect, closeConfirmed, resizedTo, closing, asked>>
    /\ LifeFrame

\* A Resize that stores the two dimensions the wrong way round.
StoredRect_Swapped(width, height) == [width |-> height, height |-> width]

\* "_view_rect.width = width; _view_rect.height = height;"
StoredRect(width, height) == [width |-> width, height |-> height]

Resize ==
    /\ Held
    /\ variant # "page"
    /\ \E w \in Sizes, h \in Sizes :
         /\ IF Stopped("Resize") \/ browser = NoBrowser
            THEN /\ last' = Obs("Resize", "host", "void", NoRect, <<>>, <<>>)
                 /\ UNCHANGED <<view_rect, resizedTo>>
            ELSE IF variant = "sub" /\ ~windowless
            THEN /\ last' = Obs("Resize", "host", "void", NoRect, <<>>, <<>>)
                 /\ UNCHANGED <<view_rect, resizedTo>>
            ELSE /\ last' = Obs("Resize", "host", "void", NoRect, <<>>, <<"WasResized">>)
                 /\ view_rect' = StoredRect(w, h)
                 /\ resizedTo' = [width |-> w, height |-> h]
         /\ asked' = [width |-> w, height |-> h]
    /\ UNCHANGED <<variant, windowless, is_running, browser, owner, closeBrowserCalls,
                   closeConfirmed, closing>>
    /\ LifeFrame

SendMessage ==
    /\ Held
    /\ last' = IF Stopped("SendMessage") \/ browser = NoBrowser
               THEN Obs("SendMessage", "host", "void", NoRect, <<>>, <<>>)
               ELSE Obs("SendMessage", "host", "void", NoRect, <<>>, <<"SendProcessMessage">>)
    /\ UNCHANGED <<variant, windowless, is_running, browser, view_rect, owner, closeBrowserCalls,
                   closeConfirmed, resizedTo, closing, asked>>
    /\ LifeFrame

SetFocus ==
    /\ Held
    /\ variant # "page"
    /\ last' = IF Stopped("SetFocus") \/ browser = NoBrowser
               THEN Obs("SetFocus", "host", "void", NoRect, <<>>, <<>>)
               ELSE Obs("SetFocus", "host", "void", NoRect, <<>>, <<"SetFocus">>)
    /\ UNCHANGED <<variant, windowless, is_running, browser, view_rect, owner, closeBrowserCalls,
                   closeConfirmed, resizedTo, closing, asked>>
    /\ LifeFrame

\* SetDevToolsOpenState: ShowDevTools or CloseDevTools on the held browser.
SetDevToolsOpenState ==
    /\ Held
    /\ \E is_open \in BOOLEAN :
         last' = IF Stopped("SetDevToolsOpenState") \/ browser = NoBrowser
                 THEN Obs("SetDevToolsOpenState", "host", "void", NoRect, <<>>, <<>>)
                 ELSE Obs("SetDevToolsOpenState", "host", "void", NoRect, <<>>,
                          IF is_open THEN <<"ShowDevTools">> ELSE <<"CloseDevTools">>)
    /\ UNCHANGED <<variant, windowless, is_running, browser, view_rect, owner, closeBrowserCalls,
                   closeConfirmed, resizedTo, closing, asked>>
    /\ LifeFrame

\* OnKeyboard, and in the same form OnMouseClick, OnMouseMove, OnMouseWheel,
\* OnTouch, OnIMEComposition and OnIMESetComposition: one input event sent
\* to the held browser.
OnKeyboard ==
    /\ Held
    /\ variant # "page"
    /\ last' = IF Stopped("OnKeyboard") \/ browser = NoBrowser
               THEN Obs("OnKeyboard", "host", "void", NoRect, <<>>, <<>>)
               ELSE Obs("OnKeyboard", "host", "void", NoRect, <<>>, <<"SendKeyEvent">>)
    /\ UNCHANGED <<variant, windowless, is_running, browser, view_rect, owner, closeBrowserCalls,
                   closeConfirmed, resizedTo, closing, asked>>
    /\ LifeFrame

NextLife ==
    \/ OnLoadStart
    \/ OnLoadEnd
    \/ OnLoadError
    \/ OnAfterCreated
    \/ DoClose
    \/ OnBeforeClose
    \/ OnTitleChange
    \/ GetViewRect
    \/ OnPaint
    \/ OnProcessMessageReceived
    \/ OnBeforePopup
    \/ SetDevToolsOpenState
    \/ OnKeyboard
    \/ Close
    \/ close_webview
    \/ Destructor
    \/ Resize
    \/ SetFocus
    \/ SendMessage

(***************************************************************************)
(* Resource stream handlers.  One engine load produces at most one adapter *)
(* (IResourceHandler) around the host's RequestHandler.  The adapter keeps *)
(* two pointers and no state of its own; phase and cancelled record the    *)
(* calls the engine has made on it so far.                                 *)
(***************************************************************************)
Reqs == 1..MaxReq
Cursors == 0..MaxCursor

\* The null pointer a factory returns for "not handled".
NullHandler == 0

NoHandler == [st |-> "none", phase |-> "unopened", cancelled |-> FALSE, destroyLog |-> <<>>,
              adapter |-> NullHandler, host |-> NullHandler]

\* What a host read or skip callback did: the boolean it returned, whether
\* it wrote through the cursor pointer, and the value it wrote.
NoOutput == [result |-> FALSE, wrote |-> FALSE, cursor |-> 0]

ResObs(op, r, ret, bytes, hostCalls) ==
    [op |-> op, req |-> r, ret |-> ret, bytes |-> bytes,
     pre_phase |-> handlers[r].phase, pre_cancelled |-> handlers[r].cancelled,
     hostCalls |-> hostCalls, host |-> NoOutput]

InitRes ==
    /\ factorySet \in BOOLEAN
    /\ handlers = [r \in Reqs |-> NoHandler]
    /\ resLast = [op |-> "none", req |-> 1, ret |-> "void", bytes |-> 0,
                  pre_phase |-> "unopened", pre_cancelled |-> FALSE, hostCalls |-> <<>>,
                  host |-> NoOutput]

\* A resource operation leaves the other components alone.
ResFrame == UNCHANGED <<lifeVars, msgVars, cookieVars, visitVars, jarVars, rtVars, mgrVars, isoVars, paintVars>>

Live(r) == handlers[r].st = "live"

\* The host handlers that live requests hold.
LiveHosts(hs) == {hs[r].host : r \in {q \in Reqs : hs[q].st = "live"}}

\* new IResourceHandler(...) handing out an adapter that already serves a request.
NewAdapter_Shared(r) == 1

\* new IResourceHandler(factory, handler): a new adapter object, named after
\* the request it is made for.
NewAdapter(r) == r

\* What the host factory's request callback may return for request r: null,
\* a handler it makes for this request (named after it), or a handler it
\* has handed out before and not yet seen destroyed.  The code does not
\* look at the pointer beyond the null test.
HostAnswers(r, hs) == {NullHandler, r} \cup LiveHosts(hs)

\* Create with the null test missing: an adapter around a null handler.
WrapHandler_WrapsNull(h, r) ==
    [NoHandler EXCEPT !.st = "live", !.adapter = NewAdapter(r), !.host = h]

\* The tail of Create / GetResourceHandler: null is passed on as null, any
\* other handler is wrapped in a new adapter.
WrapHandler(h, r) ==
    IF h = NullHandler
    THEN [NoHandler EXCEPT !.st = "declined"]
    ELSE [NoHandler EXCEPT !.st = "live", !.adapter = NewAdapter(r), !.host = h]

\* ISchemeHandlerFactory::Create and IResourceRequestHandler::GetResourceHandler:
\* without a factory null is returned at once; otherwise the host factory is
\* asked once and its answer wrapped.  The loads are numbered in the order
\* in which the engine asks for their handlers.
GetResourceHandler ==
    \E r \in Reqs :
      \E h \in HostAnswers(r, handlers) :
        /\ handlers[r].st = "none"
        /\ \A q \in Reqs : q < r => handlers[q].st # "none"
        /\ IF ~factorySet
           THEN /\ handlers' = [handlers EXCEPT ![r].st = "declined"]
                /\ resLast' = ResObs("GetResourceHandler", r, "null", 0, <<>>)
           ELSE /\ handlers' = [handlers EXCEPT ![r] = WrapHandler(h, r)]
                /\ resLast' = ResObs("GetResourceHandler", r,
                                     IF WrapHandler(h, r).adapter = NullHandler
                                     THEN "null" ELSE "handler",
                                     0, <<"request">>)
        /\ UNCHANGED factorySet
        /\ ResFrame

\* What the adapter returns to the engine for a read or skip: the host's
\* boolean and the cursor the host wrote.
Forward(hostResult, hostCursor) == [ret |-> hostResult, bytes |-> hostCursor]

BoolStr(b) == IF b THEN "true" ELSE "false"

\* A cursor kept from one call to the next.
LocalCursor_CarriedOver(previous) == previous

\* "int cursor = 0;": each call starts from a fresh local, whatever the
\* call before it reported.
LocalCursor(previous) == 0

\* The local after the host callback returned: the host's value if it wrote
\* one, the initial value if not.
CursorAfter(host) == IF host.wrote THEN host.cursor ELSE LocalCursor(resLast.bytes)

\* What the host may do in a read or skip callback.
HostOutputs ==
    {h \in [result : BOOLEAN, wrote : BOOLEAN, cursor : Cursors] : h.wrote \/ h.cursor = 0}

Open ==
    \E r \in Reqs, hostResult \in BOOLEAN :
        /\ Live(r)
        /\ handlers' = [handlers EXCEPT ![r].phase =
                           IF hostResult /\ @ = "unopened" THEN "open" ELSE @]
        /\ resLast' = ResObs("Open", r, BoolStr(hostResult), 0, <<"open">>)
        /\ UNCHANGED factorySet
        /\ ResFrame

GetResponseHeaders ==
    \E r \in Reqs :
        /\ Live(r)
        /\ resLast' = ResObs("GetResponseHeaders", r, "void", 0, <<"get_response">>)
        /\ UNCHANGED <<factorySet, handlers>>
        /\ ResFrame

\* The phase after a read or skip the host answered: data moved (true) or
\* the stream ended (false).  A call on an unopened stream leaves it unopened.
AfterTransfer(phase, hostResult) ==
    IF phase = "unopened" THEN "unopened"
    ELSE IF hostResult THEN "streaming" ELSE "exhausted"

Read ==
    \E r \in Reqs, host \in HostOutputs :
        /\ Live(r)
        /\ handlers' = [handlers EXCEPT ![r].phase = AfterTransfer(@, host.result)]
        /\ resLast' = [ResObs("Read", r,
                              BoolStr(Forward(host.result, CursorAfter(host)).ret),
                              Forward(host.result, CursorAfter(host)).bytes, <<"read">>)
                       EXCEPT !.host = host]
        /\ UNCHANGED factorySet
        /\ ResFrame

Skip ==
    \E r \in Reqs, host \in HostOutputs :
        /\ Live(r)
        /\ handlers' = [handlers EXCEPT ![r].phase = AfterTransfer(@, host.result)]
        /\ resLast' = [ResObs("Skip", r,
                              BoolStr(Forward(host.result, CursorAfter(host)).ret),
                              Forward(host.result, CursorAfter(host)).bytes, <<"skip">>)
                       EXCEPT !.host = host]
        /\ UNCHANGED factorySet
        /\ ResFrame

Cancel ==
    \E r \in Reqs :
        /\ Live(r)
        /\ handlers' = [handlers EXCEPT ![r].cancelled = TRUE]
        /\ resLast' = ResObs("Cancel", r, "void", 0, <<"cancel">>)
        /\ UNCHANGED factorySet
        /\ ResFrame

\* ~IResourceHandler with the two callbacks in the wrong order.
DestructorCalls_Swapped == <<"destroy_request_handler", "destroy">>

\* ~IResourceHandler: the host callbacks it invokes, in order.
DestructorCalls == <<"destroy", "destroy_request_handler">>

\* The engine releases its last reference to the adapter.
ReleaseHandler ==
    \E r \in Reqs :
        /\ Live(r)
        /\ handlers' = [handlers EXCEPT ![r] =
               [NoHandler EXCEPT !.st = "destroyed",
                                 !.destroyLog = handlers[r].destroyLog \o DestructorCalls]]
        /\ resLast' = ResObs("~IResourceHandler", r, "void", 0, DestructorCalls)
        /\ UNCHANGED factorySet
        /\ ResFrame

NextRes ==
    \/ GetResourceHandler
    \/ Open
    \/ GetResponseHeaders
    \/ Read
    \/ Skip
    \/ Cancel
    \/ ReleaseHandler

(***************************************************************************)
(* Render-process message transport.  The render process holds one         *)
(* MessageSender and one MessageReceiver; every script context gets the    *)
(* MessageTransport object with the two of them as "send" and "on".        *)
(* Messages are identified by the order in which the host sent them and    *)
(* callbacks by the order in which scripts registered them.                *)
(***************************************************************************)
Msgs == 1..MaxMsgs

\* The argument lists a script may call a primitive with, by the kinds of
\* the values.
ScriptArgs == {<<>>, <<"function">>, <<"string">>, <<"string", "function">>}

\* What a script-side or transport operation did, with the registration it
\* found.
MsgObs(op, ret, engineCalls, args) ==
    [op |-> op, ret |-> ret, calls |-> engineCalls, args |-> args,
     pre_context |-> recv_context, pre_callback |-> recv_callback]

InitMsg ==
    /\ sender_browser = NoBrowser
    /\ recv_context = 0
    /\ recv_callback = 0
    /\ liveContext = 0
    /\ toRender = <<>>
    /\ sent = 0
    /\ arrivals = <<>>
    /\ regAt = <<>>
    /\ msgLast = [op |-> "none", ret |-> "void", calls |-> <<>>, args |-> <<>>,
                  pre_context |-> 0, pre_callback |-> 0]
    /\ toBrowser = <<>>
    /\ scriptSent = 0
    /\ hostArrivals = <<>>
    /\ hostGot = <<>>
    /\ scriptGot = <<>>
    /\ hostReady = TRUE

\* A message operation leaves the other components alone.
MsgFrame == UNCHANGED <<lifeVars, resVars, cookieVars, visitVars, jarVars, rtVars, mgrVars, isoVars, paintVars>>

\* IWebView::SendMessage: on a running instance one process message to the
\* renderer, carrying the payload; nothing on a closed one.
SendToRenderer ==
    /\ sent < MaxMsgs
    /\ IF hostReady
       THEN /\ sent' = sent + 1
            /\ toRender' = Append(toRender, sent + 1)
            /\ msgLast' = MsgObs("SendMessage", "void", <<"SendProcessMessage">>, <<>>)
       ELSE /\ msgLast' = MsgObs("SendMessage", "void", <<>>, <<>>)
            /\ UNCHANGED <<sent, toRender>>
    /\ UNCHANGED <<sender_browser, recv_context, recv_callback, liveContext, arrivals, regAt,
                   upVars, scriptGot, hostReady>>
    /\ MsgFrame

\* IWebView::Close as the transport sees it: the controller stops running
\* and drops its browser.
IWebView_Close ==
    /\ hostReady
    /\ hostReady' = FALSE
    /\ msgLast' = MsgObs("Close", "void", <<>>, <<>>)
    /\ UNCHANGED <<sender_browser, recv_context, recv_callback, liveContext, toRender, sent,
                   arrivals, regAt, upVars, scriptGot>>
    /\ MsgFrame

\* ISubProcess::OnContextCreated: the engine made a new script context (first
\* load, navigation, reload); the sender's browser is set and the context
\* gets "send" and "on".
OnContextCreated ==
    /\ liveContext < MaxCtx
    /\ liveContext' = liveContext + 1
    /\ sender_browser' = TheBrowser
    /\ msgLast' = MsgObs("OnContextCreated", "void", <<>>, <<>>)
    /\ UNCHANGED <<recv_context, recv_callback, toRender, sent, arrivals, regAt,
                   upVars, scriptGot, hostReady>>
    /\ MsgFrame

\* The argument test of MessageReceiver::Execute.
OnAccepts(args) == Len(args) = 1 /\ args[1] = "function"

\* A receiver that keeps the first callback it was given.
Capture_KeepsFirst(held, given) == IF held = 0 THEN given ELSE held

\* MessageReceiver::Execute assigning _context and _callback: what is given
\* replaces what is held.
Capture(held, given) == given

\* MessageReceiver::Execute, the "on" primitive, called by a script of the
\* live context: one function argument is captured with the context.
MessageReceiver_Execute ==
    \E args \in ScriptArgs :
        /\ liveContext # 0
        /\ IF OnAccepts(args) /\ Len(regAt) < MaxRegs
           THEN /\ recv_context' = Capture(recv_context, liveContext)
                /\ recv_callback' = Capture(recv_callback, Len(regAt) + 1)
                /\ regAt' = Append(regAt, Len(arrivals))
                /\ msgLast' = MsgObs("on", "true", <<>>, args)
           ELSE /\ ~OnAccepts(args)
                /\ msgLast' = MsgObs("on", "false", <<>>, args)
                /\ UNCHANGED <<recv_context, recv_callback, regAt>>
        /\ UNCHANGED <<sender_browser, liveContext, toRender, sent, arrivals,
                       upVars, scriptGot, hostReady>>
        /\ MsgFrame

\* A sender that takes any single value for a message.
SendAccepts_AnyValue(args) == sender_browser # NoBrowser /\ Len(args) = 1

\* The test of MessageSender::Execute: a browser is held and the call has
\* one argument, a string.
SendAccepts(args) ==
    sender_browser # NoBrowser /\ Len(args) = 1 /\ args[1] = "string"

\* MessageSender::Execute, the "send" primitive.  The sender exists from
\* the start of the render process, before any context has given it a
\* browser.
MessageSender_Execute ==
    \E args \in ScriptArgs :
        /\ IF SendAccepts(args) /\ scriptSent < MaxSends
           THEN /\ scriptSent' = scriptSent + 1
                /\ toBrowser' = Append(toBrowser, scriptSent + 1)
                /\ msgLast' = MsgObs("send", "true", <<"SendProcessMessage">>, args)
           ELSE /\ ~SendAccepts(args)
                /\ msgLast' = MsgObs("send", "false", <<>>, args)
                /\ UNCHANGED <<scriptSent, toBrowser>>
        /\ UNCHANGED <<sender_browser, recv_context, recv_callback, liveContext, toRender,
                       sent, arrivals, regAt, hostArrivals, hostGot, scriptGot, hostReady>>
        /\ MsgFrame

\* MessageReceiver::Recv delivers only when a context and a callback are held.
RecvDelivers == recv_context # 0 /\ recv_callback # 0

\* A delivery that enters the context and does not leave it.
Recv_NoExit(payload) ==
    IF RecvDelivers
    THEN [msg |-> payload, to |-> recv_callback, context |-> recv_context,
          calls |-> <<"Enter", "ExecuteFunction">>]
    ELSE [msg |-> payload, to |-> 0, context |-> 0, calls |-> <<>>]

\* MessageReceiver::Recv: the callback the payload goes to (0: none) and the
\* engine calls made for it.
Recv(payload) ==
    IF RecvDelivers
    THEN [msg |-> payload, to |-> recv_callback, context |-> recv_context,
          calls |-> <<"Enter", "ExecuteFunction", "Exit">>]
    ELSE [msg |-> payload, to |-> 0, context |-> 0, calls |-> <<>>]

\* A received message that stays at the head of the channel for as long as
\* no callback is registered.
Consumed_KeptUntilRegistered(q) == IF RecvDelivers THEN Tail(q) ELSE q

\* ISubProcess::OnProcessMessageReceived returns true: the message is
\* handled and gone from the channel, delivered or not.
Consumed(q) == Tail(q)

\* ISubProcess::OnProcessMessageReceived: the head of the channel arrives
\* and is handed to the receiver.
ISubProcess_OnProcessMessageReceived ==
    /\ toRender # <<>>
    /\ Len(arrivals) < MaxMsgs
    /\ arrivals' = Append(arrivals, Recv(Head(toRender)))
    /\ scriptGot' = IF RecvDelivers THEN Append(scriptGot, Head(toRender)) ELSE scriptGot
    /\ toRender' = Consumed(toRender)
    /\ msgLast' = MsgObs("OnProcessMessageReceived", "true", Recv(Head(toRender)).calls, <<>>)
    /\ UNCHANGED <<sender_browser, recv_context, recv_callback, liveContext, sent, regAt,
                   upVars, hostReady>>
    /\ MsgFrame

\* A controller that hands the newest payload to the host ahead of the
\* ones it handed over before.
OnMessage_NewestFirst(got, payload) == <<payload>> \o got

\* _handler.on_message(payload, context): the host is called with the
\* payload, once, while the message is being handled.
OnMessage(got, payload) == Append(got, payload)

\* IWebView::OnProcessMessageReceived as the transport sees it: the head of
\* the channel arrives; a running controller hands its payload to the host
\* and returns true, a closed one returns false.
IWebView_OnProcessMessageReceived ==
    /\ toBrowser # <<>>
    /\ hostArrivals' = Append(hostArrivals, [msg |-> Head(toBrowser), delivered |-> hostReady])
    /\ hostGot' = IF hostReady THEN OnMessage(hostGot, Head(toBrowser)) ELSE hostGot
    /\ toBrowser' = Tail(toBrowser)
    /\ msgLast' = MsgObs("IWebView::OnProcessMessageReceived", BoolStr(hostReady),
                         IF hostReady THEN <<"on_message">> ELSE <<>>, <<>>)
    /\ UNCHANGED <<sender_browser, recv_context, recv_callback, liveContext, toRender, sent,
                   arrivals, regAt, scriptSent, scriptGot, hostReady>>
    /\ MsgFrame

NextMsg ==
    \/ SendToRenderer
    \/ IWebView_Close
    \/ OnContextCreated
    \/ MessageReceiver_Execute
    \/ MessageSender_Execute
    \/ ISubProcess_OnProcessMessageReceived
    \/ IWebView_OnProcessMessageReceived

(***************************************************************************)
(* Cookie bridge.  SetCookie, DeleteCookies and FlushStore run the engine  *)
(* operation inline when called on the IO thread; called on another thread *)
(* they post a CookieTask to the IO thread and wait on an AsyncResult with *)
(* a timeout.  Every bridged call is made on a thread of its own.          *)
(***************************************************************************)
CallIds == 1..MaxCalls

CookieOps == {[fn |-> "SetCookie", url |-> "valid"],
              [fn |-> "SetCookie", url |-> "invalid"],
              [fn |-> "DeleteCookies", url |-> "valid"],
              [fn |-> "FlushStore", url |-> "none"]}

EmptyStore == [cookie |-> FALSE, dirty |-> FALSE]

\* The engine's cookie manager, as the bridge calls it: what the operation
\* leaves in the store and the boolean it returns.
EngineOp(op, st) ==
    CASE op.fn = "SetCookie" /\ op.url = "valid" ->
             [store |-> [cookie |-> TRUE, dirty |-> TRUE], ret |-> TRUE]
      [] op.fn = "SetCookie" /\ op.url # "valid" ->
             [store |-> st, ret |-> FALSE]
      [] op.fn = "DeleteCookies" ->
             [store |-> [cookie |-> FALSE, dirty |-> TRUE], ret |-> TRUE]
      [] op.fn = "FlushStore" ->
             [store |-> [st EXCEPT !.dirty = FALSE], ret |-> TRUE]

\* AsyncResult as constructed: result_{} and ready_ = false.
NewBox == [ready |-> FALSE, result |-> FALSE]

NoCall == [op |-> [fn |-> "none", url |-> "none"], mode |-> "none", pc |-> "idle",
           box |-> NewBox, ret |-> FALSE, timedOut |-> FALSE, engineRet |-> "none"]

InitCookie ==
    /\ store = EmptyStore
    /\ ioQueue = <<>>
    /\ calls = [c \in CallIds |-> NoCall]
    /\ effects = <<>>

\* A cookie operation leaves the other components alone.
CookieFrame == UNCHANGED <<lifeVars, resVars, msgVars, visitVars, jarVars, rtVars, mgrVars, isoVars, paintVars>>

Started(c) == calls[c].mode # "none"

VisitStarted(c) == visits[c].mode # "none"

\* The next call, a blocking operation or a visit, is the lowest-numbered
\* one not made yet.
NextCall(c) ==
    /\ managerAlive
    /\ ~Started(c) /\ ~VisitStarted(c)
    /\ \A d \in CallIds : d < c => (Started(d) \/ VisitStarted(d))

\* A post that puts the task on the queue twice.
CefPostTask_Twice(q, task) == q \o <<task, task>>

\* CefPostTask(TID_IO, task): the task goes to the end of the IO thread's
\* queue.
CefPostTask(q, task) == Append(q, task)

\* The branch "if (CefCurrentlyOn(TID_IO))": the engine operation runs on the
\* calling thread and its boolean is returned.
CallInline(c) ==
    \E op \in CookieOps :
        /\ NextCall(c)
        /\ store' = EngineOp(op, store).store
        /\ effects' = Append(effects, c)
        /\ calls' = [calls EXCEPT ![c] =
              [NoCall EXCEPT !.op = op, !.mode = "inline", !.pc = "returned",
                             !.ret = EngineOp(op, store).ret,
                             !.engineRet = BoolStr(EngineOp(op, store).ret)]]
        /\ UNCHANGED ioQueue
        /\ CookieFrame

\* The other branch: make the result box, post the task, start waiting.
CallBridged(c) ==
    \E op \in CookieOps :
        /\ NextCall(c)
        /\ ioQueue' = CefPostTask(ioQueue, c)
        /\ calls' = [calls EXCEPT ![c] =
              [NoCall EXCEPT !.op = op, !.mode = "bridged", !.pc = "waiting"]]
        /\ UNCHANGED <<store, effects>>
        /\ CookieFrame

\* AsyncResult::SetResult storing the default instead of the value.
SetResult_StoresDefault(value) == [ready |-> TRUE, result |-> FALSE]

\* AsyncResult::SetResult.
SetResult(value) == [ready |-> TRUE, result |-> value]

\* CookieTask::Execute on the IO thread: the oldest posted closure runs the
\* engine operation and sets the result box, whether or not its caller is
\* still waiting.
Execute ==
    /\ managerAlive
    /\ ioQueue # <<>>
    /\ LET c == Head(ioQueue)
           r == EngineOp(calls[c].op, store)
       IN /\ store' = r.store
          /\ effects' = Append(effects, c)
          /\ calls' = [calls EXCEPT ![c].box = SetResult(r.ret),
                                    ![c].engineRet = BoolStr(r.ret)]
    /\ ioQueue' = Tail(ioQueue)
    /\ CookieFrame

\* A wait that relies on the notification alone: a result set before the
\* wait began is never seen.
ReadyPredicate_NotConsulted(box) == FALSE

\* The predicate "[this] { return ready_; }" that wait_for evaluates under
\* the mutex before it blocks, after each wakeup and when the time is up.
ReadyPredicate(box) == box.ready

\* cv_.wait_for never giving up.
WaitExpires_Never(c) == FALSE

\* cv_.wait_for(lock, timeout, pred) gives up: the timeout has elapsed and
\* the predicate ready_ is still false.
WaitExpires(c) == calls[c].pc = "waiting" /\ ~ReadyPredicate(calls[c].box)

\* A timeout that also withdraws the posted task.
QueueAfterTimeout_Cancels(q, c) == SelectSeq(q, LAMBDA d : d # c)

\* The timeout branch of WaitForResult touches nothing but the caller.
QueueAfterTimeout(q, c) == q

\* AsyncResult::WaitForResult, timeout branch: return T{}.
WaitForResult_Timeout(c) ==
    /\ WaitExpires(c)
    /\ calls' = [calls EXCEPT ![c].pc = "returned", ![c].ret = FALSE,
                              ![c].timedOut = TRUE]
    /\ ioQueue' = QueueAfterTimeout(ioQueue, c)
    /\ UNCHANGED <<store, effects>>
    /\ CookieFrame

\* AsyncResult::WaitForResult, the predicate holds: return result_.
WaitForResult_Ready(c) ==
    /\ calls[c].pc = "waiting"
    /\ ReadyPredicate(calls[c].box)
    /\ calls' = [calls EXCEPT ![c].pc = "returned", ![c].ret = calls[c].box.result]
    /\ UNCHANGED <<store, ioQueue, effects>>
    /\ CookieFrame

NextCookie ==
    \/ \E c \in CallIds : CallInline(c)
    \/ \E c \in CallIds : CallBridged(c)
    \/ Execute
    \/ \E c \in CallIds : WaitForResult_Timeout(c)
    \/ \E c \in CallIds : WaitForResult_Ready(c)

\* The waiting thread is scheduled and its clock advances.
WaitFairness ==
    \A c \in CallIds : WF_vars(WaitForResult_Timeout(c)) /\ WF_vars(WaitForResult_Ready(c))

\* The IO thread keeps running the tasks posted to it.
IOFairness == WF_vars(Execute)

(***************************************************************************)
(* Cookie visits.  VisitAllCookies and VisitUrlCookies wrap the host's     *)
(* CookieVisitor in a reference-counted ICookieVisitor and hand it to the  *)
(* engine, inline on the IO thread or from a task posted to it; the call   *)
(* does not wait.  The engine calls Visit once per record and drops its    *)
(* reference when the visit is over; the wrapper's destructor calls the    *)
(* host's destroy.  The two operations differ in the url they pass on and  *)
(* are one operation here.                                                 *)
(***************************************************************************)
Records == 0..MaxRecords

\* mode: how the call was dispatched; wrapper: the ICookieVisitor; refs: who
\* holds a reference to it; total, count: the engine's records and how many
\* of them Visit has seen; over: no further Visit will come; log: the host
\* callbacks made so far; posted: tasks posted by the call; inlineCalls:
\* engine visit requests made on the calling thread; returnedAt: the length
\* of log when the initiating call returned; visitor: the host passed a
\* CookieVisitor, not a null pointer.
NoVisit == [mode |-> "none", pc |-> "idle", wrapper |-> "none", visitor |-> FALSE,
            refs |-> {}, total |-> 0, count |-> 0, over |-> FALSE, log |-> <<>>,
            posted |-> 0, inlineCalls |-> 0, returnedAt |-> 0]

InitVisit ==
    /\ visits = [c \in CallIds |-> NoVisit]
    /\ visitQueue = <<>>

\* A visit operation leaves the other components alone.
VisitFrame == UNCHANGED <<lifeVars, resVars, msgVars, cookieVars, jarVars, rtVars, mgrVars, isoVars, paintVars>>

\* new ICookieVisitor(visitor), held by the caller's cef_visitor.  The
\* host's CookieVisitor carries its visit and its destroy callback.
NewVisitor(mode) ==
    [NoVisit EXCEPT !.mode = mode, !.wrapper = "alive", !.refs = {"caller"},
                    !.visitor = TRUE]

\* A wrapper deleted as soon as any holder lets go of it.
Released_OnAnyRelease(refs) == TRUE

\* IMPLEMENT_REFCOUNTING: the wrapper is deleted when its last reference
\* is released.
Released(refs) == refs = {}

\* A holder lets go of the wrapper; when that deletes it, ~ICookieVisitor
\* calls the host's destroy.
Release(v, holder) ==
    IF v.wrapper = "alive" /\ Released(v.refs \ {holder})
    THEN [v EXCEPT !.refs = @ \ {holder}, !.wrapper = "destroyed",
                   !.log = Append(@, "destroy")]
    ELSE [v EXCEPT !.refs = @ \ {holder}]

\* _manager->VisitAllCookies(cef_visitor) / VisitUrlCookies on the IO thread:
\* the engine either takes the visitor, to visit its records later, or
\* refuses it.
EngineVisit(v, accepts, total) ==
    IF accepts
    THEN [v EXCEPT !.refs = @ \cup {"engine"}, !.total = total, !.over = (total = 0)]
    ELSE v

\* The early return for a null manager, url or visitor: no wrapper is made.
VisitRejected(mode, visitorGiven) ==
    [NoVisit EXCEPT !.mode = mode, !.pc = "returned", !.visitor = visitorGiven]

\* VisitAllCookies / VisitUrlCookies called on the IO thread.
VisitInline(c) ==
    \E argsGiven, visitorGiven, accepts \in BOOLEAN, total \in Records :
        /\ NextCall(c)
        /\ visits' = [visits EXCEPT ![c] =
              IF ~argsGiven \/ ~visitorGiven
              THEN VisitRejected("inline", visitorGiven)
              ELSE LET v == Release(EngineVisit([NewVisitor("inline")
                                                   EXCEPT !.inlineCalls = 1],
                                                accepts, total), "caller")
                   IN  [v EXCEPT !.pc = "returned", !.returnedAt = Len(v.log)]]
        /\ UNCHANGED visitQueue
        /\ VisitFrame

\* VisitAllCookies / VisitUrlCookies called on another thread: the task is
\* posted with a reference to the wrapper and the call returns.
VisitBridged(c) ==
    \E argsGiven, visitorGiven \in BOOLEAN :
        /\ NextCall(c)
        /\ IF ~argsGiven \/ ~visitorGiven
           THEN /\ visits' = [visits EXCEPT ![c] = VisitRejected("bridged", visitorGiven)]
                /\ UNCHANGED visitQueue
           ELSE /\ visitQueue' = CefPostTask(visitQueue, c)
                /\ visits' = [visits EXCEPT ![c] =
                      LET v == Release([NewVisitor("bridged")
                                          EXCEPT !.refs = @ \cup {"task"}, !.posted = 1],
                                       "caller")
                      IN  [v EXCEPT !.pc = "returned", !.returnedAt = Len(v.log)]]
        /\ VisitFrame

\* CookieTask::Execute for a visit: the posted closure hands the wrapper to
\* the engine and is deleted, with its reference.
VisitTask_Execute ==
    \E accepts \in BOOLEAN, total \in Records :
        /\ managerAlive
        /\ visitQueue # <<>>
        /\ visits' = [visits EXCEPT ![Head(visitQueue)] =
                         Release(EngineVisit(@, accepts, total), "task")]
        /\ visitQueue' = Tail(visitQueue)
        /\ VisitFrame

\* ICookieVisitor::Visit, called by the engine for its next record: the
\* host's visit callback decides whether to go on, and its answer is
\* returned.  (Its wish to delete the record is passed on too; what the
\* engine does with it is not part of this component.)
ICookieVisitor_Visit(c) ==
    \E continue_visiting \in BOOLEAN :
        /\ "engine" \in visits[c].refs
        /\ ~visits[c].over
        /\ visits' = [visits EXCEPT ![c].count = @ + 1,
                                    ![c].log = Append(@, "visit"),
                                    ![c].over = (~continue_visiting
                                                   \/ visits[c].count + 1 = visits[c].total)]
        /\ UNCHANGED visitQueue
        /\ VisitFrame

\* The visit is over and the engine drops its reference.
EngineRelease(c) ==
    /\ "engine" \in visits[c].refs
    /\ visits[c].over
    /\ visits' = [visits EXCEPT ![c] = Release(@, "engine")]
    /\ UNCHANGED visitQueue
    /\ VisitFrame

NextVisit ==
    \/ \E c \in CallIds : VisitInline(c)
    \/ \E c \in CallIds : VisitBridged(c)
    \/ VisitTask_Execute
    \/ \E c \in CallIds : ICookieVisitor_Visit(c)
    \/ \E c \in CallIds : EngineRelease(c)

\* Blocking operations and visits of one cookie manager.
NextCookieOps == NextCookie \/ NextVisit

(***************************************************************************)
(* The life of the ICookieManager object.  Every posted closure captures   *)
(* "this"; wew_destroy_cookie_manager deletes the object whatever is still *)
(* queued.                                                                 *)
(***************************************************************************)
InitMgr ==
    /\ managerAlive = TRUE
    /\ usedFreed = FALSE

MgrFrame == UNCHANGED <<lifeVars, resVars, msgVars, jarVars, rtVars, isoVars, paintVars>>

\* wew_destroy_cookie_manager, called by the host once none of its threads
\* is inside a call on the manager.
wew_destroy_cookie_manager ==
    /\ managerAlive
    /\ \A c \in CallIds : calls[c].pc # "waiting"
    /\ managerAlive' = FALSE
    /\ UNCHANGED <<usedFreed, cookieVars, visitVars>>
    /\ MgrFrame

\* CookieTask::Execute of a blocking operation after the manager was
\* deleted: "_manager->..." reads the freed object.  The read finds the old
\* pointer and the operation runs, or it does not and the process stops
\* there.
CookieTask_Execute_Freed ==
    \E stale \in BOOLEAN :
        /\ ~managerAlive
        /\ ioQueue # <<>>
        /\ usedFreed' = TRUE
        /\ IF stale
           THEN LET c == Head(ioQueue)
                    r == EngineOp(calls[c].op, store)
                IN /\ store' = r.store
                   /\ effects' = Append(effects, c)
                   /\ calls' = [calls EXCEPT ![c].box = SetResult(r.ret),
                                             ![c].engineRet = BoolStr(r.ret)]
           ELSE UNCHANGED <<store, effects, calls>>
        /\ ioQueue' = Tail(ioQueue)
        /\ UNCHANGED <<managerAlive, visitVars>>
        /\ MgrFrame

\* CookieTask::Execute of a visit after the manager was deleted.
VisitTask_Execute_Freed ==
    \E stale \in BOOLEAN, accepts \in BOOLEAN, total \in Records :
        /\ ~managerAlive
        /\ visitQueue # <<>>
        /\ usedFreed' = TRUE
        /\ ~stale => (~accepts /\ total = 0)
        /\ visits' = [visits EXCEPT ![Head(visitQueue)] =
                         Release(EngineVisit(@, stale /\ accepts, total), "task")]
        /\ visitQueue' = Tail(visitQueue)
        /\ UNCHANGED <<managerAlive, cookieVars>>
        /\ MgrFrame

NextMgr ==
    \/ wew_destroy_cookie_manager
    \/ CookieTask_Execute_Freed
    \/ VisitTask_Execute_Freed

NextManager == NextCookie \/ NextVisit \/ NextMgr

(***************************************************************************)
(* Cookie data.  What the ICookieManager calls pass to the engine's cookie *)
(* manager and what the visitor hands back: the null checks, the string    *)
(* conversions and the records.  One host thread makes one call after the  *)
(* other here; the interleavings of callers and IO thread are the subject  *)
(* of the cookie bridge above.                                             *)
(***************************************************************************)
\* A null pointer among the host's arguments.
NullPtr == "nullptr"

\* Host strings are C strings: "u1", "u2", "a", "b", "c" are ASCII, and this
\* one holds a character outside ASCII, in UTF-8.
NonAscii == "utf8:e-acute"

\* An engine string (CefString) with the characters it holds.
Wide(chars) == [w |-> chars]
EmptyString == Wide("")

\* CefString::FromASCII: every byte of the C string becomes one character.
\* That is the string itself for ASCII; the two bytes of a UTF-8 sequence
\* become two characters.
FromASCII(cstr) ==
    IF cstr = NonAscii THEN Wide("bytes-of:" \o cstr) ELSE Wide(cstr)

\* CefString::ToString: the characters of the engine string, in UTF-8.
CefString_ToString(cefstr) == cefstr.w

\* A conversion that loses the pointer's string.
OptionalString_Dropped(ptr) == EmptyString

\* "CefString s; if (ptr) s.FromASCII(ptr);": a null pointer leaves the
\* engine string empty.
OptionalString(ptr) == IF ptr = NullPtr THEN EmptyString ELSE FromASCII(ptr)

\* The cookies the engine may hold when the manager is obtained.
InitialCookies ==
    {[url |-> Wide("u1"), name |-> Wide("a"), value |-> Wide("b")],
     [url |-> Wide("u1"), name |-> Wide("c"), value |-> Wide("b")],
     [url |-> Wide("u2"), name |-> Wide("a"), value |-> Wide("b")]}

\* CefCookieManager::SetCookie: the cookie replaces the one of that url and
\* name, and true is returned.
EngineSetCookie(j, url, name, value) ==
    [jar |-> {k \in j : ~(k.url = url /\ k.name = name)}
                \cup {[url |-> url, name |-> name, value |-> value]},
     ret |-> TRUE]

\* CefCookieManager::DeleteCookies: with an empty url every cookie goes,
\* with a url and an empty name every cookie of the url, with both the
\* cookie of that url and name.
EngineDeleteCookies(j, url, name) ==
    [jar |-> {k \in j : ~( \/ url = EmptyString
                            \/ (k.url = url /\ (name = EmptyString \/ k.name = name)) )},
     ret |-> TRUE]

\* The cookies the engine visits for a url, and for no url.
EngineUrlCookies(j, url) == {k \in j : k.url = url}

RECURSIVE InSomeOrder(_)
InSomeOrder(S) ==
    IF S = {} THEN <<>>
    ELSE LET k == CHOOSE x \in S : TRUE IN <<k>> \o InSomeOrder(S \ {k})

\* ICookieVisitor::Visit filling the host's Cookie: name and value through
\* ToString, the three times zero.
VisitRecord(k) ==
    [name |-> CefString_ToString(k.name), value |-> CefString_ToString(k.value),
     expires |-> 0, creation |-> 0, last_access |-> 0]

\* What the host's visit callback may do with the records it is shown: for
\* each one, whether to continue and whether to delete it.  What it would
\* have done with a record it never sees is left out: nothing follows a
\* stop, and a visitor without a visit function answers nothing.
VisitAnswers(len, visitor) ==
    {a \in [1..len -> [go : BOOLEAN, del : BOOLEAN]] :
        \A i \in 1..len :
            (visitor = "novisit" \/ \E h \in 1..(i - 1) : ~a[h].go)
                => a[i] = [go |-> TRUE, del |-> FALSE]}

\* A Visit that passes the continue answer on and never the delete flag.
ICookieVisitor_Visit_Outputs_NoDelete(visitor, answer) ==
    IF visitor = "novisit"
    THEN [go |-> FALSE, del |-> FALSE]
    ELSE [go |-> answer.go, del |-> FALSE]

\* ICookieVisitor::Visit, what the engine gets back for one record: false
\* and an untouched deleteCookie when there is no visit function, else the
\* host's answer and the delete flag it set.
ICookieVisitor_Visit_Outputs(visitor, answer) ==
    IF visitor = "novisit"
    THEN [go |-> FALSE, del |-> FALSE]
    ELSE [go |-> answer.go, del |-> answer.del]

\* The engine's loop: how many records it calls Visit for, given what each
\* call returns.  It stops after the first false.
VisitCalls(outs) ==
    IF \E i \in 1..Len(outs) : ~outs[i].go
    THEN CHOOSE i \in 1..Len(outs) : ~outs[i].go /\ \A h \in 1..(i - 1) : outs[h].go
    ELSE Len(outs)

\* The records the host's visit callback gets: those of the n Visit calls,
\* none from a wrapper without a visit function.
Visited(records, visitor, n) ==
    IF visitor = "novisit" THEN <<>>
    ELSE [i \in 1..n |-> VisitRecord(records[i])]

NoSet == [done |-> FALSE]

NullCookie == [ptr |-> NullPtr, name |-> NullPtr, value |-> NullPtr]

\* What a call was given, what it passed on and returned, the cookies before
\* it, and the successful SetCookie (if any) right before it.
JarObs(op, mode, url, cookie, name, visitor, ret, engineCalls, seen, total, set) ==
    [op |-> op, mode |-> mode, url |-> url, cookie |-> cookie, name |-> name,
     visitor |-> visitor,
     ret |-> ret, engineCalls |-> engineCalls, seen |-> seen, total |-> total,
     pre |-> jar, set |-> set, after |-> jarLast.set,
     records |-> <<>>, answers |-> <<>>, visitCalls |-> 0]

InitJar ==
    /\ jar \in SUBSET InitialCookies
    /\ jarLast = [op |-> "none", mode |-> "inline", url |-> NullPtr, cookie |-> NullCookie,
                  name |-> NullPtr, visitor |-> NullPtr, ret |-> "void", engineCalls |-> <<>>, seen |-> <<>>,
                  total |-> 0, pre |-> jar, set |-> NoSet, after |-> NoSet,
                  records |-> <<>>, answers |-> <<>>, visitCalls |-> 0]

IdleJar ==
    /\ InitJar
    /\ jar = {}

\* A cookie-data operation leaves the other components alone.
JarFrame == UNCHANGED <<lifeVars, resVars, msgVars, cookieVars, visitVars, rtVars, mgrVars, isoVars, paintVars>>

\* What the caller of a blocking operation gets: the engine's boolean, or
\* false when the call was bridged and the wait ran out first.
Answer(mode, timely, engineRet) ==
    IF mode = "inline" \/ timely THEN BoolStr(engineRet) ELSE "false"

\* The Cookie arguments of the host: a null pointer, or a Cookie whose name
\* and value are strings or null.
CookieArgs ==
    {NullCookie} \cup [ptr : {"given"}, name : {"a", NullPtr}, value : {"b", NonAscii, NullPtr}]

\* ICookieManager::SetCookie.
ICookieManager_SetCookie ==
    \E mode \in {"inline", "bridged"}, timely \in BOOLEAN, url \in {"u1", NullPtr},
       cookie \in CookieArgs :
        /\ mode = "inline" => timely
        /\ IF url = NullPtr \/ cookie.ptr = NullPtr
           THEN /\ jarLast' = JarObs("SetCookie", mode, url, cookie, NullPtr, NullPtr, "false",
                                     <<>>, <<>>, 0, NoSet)
                /\ UNCHANGED jar
           ELSE IF cookie.name = NullPtr \/ cookie.value = NullPtr
           THEN /\ jarLast' = JarObs("SetCookie", mode, url, cookie, NullPtr, NullPtr, "false",
                                     <<>>, <<>>, 0, NoSet)
                /\ UNCHANGED jar
           ELSE LET e == EngineSetCookie(jar, FromASCII(url), FromASCII(cookie.name),
                                         FromASCII(cookie.value))
                IN  /\ jar' = e.jar
                    /\ jarLast' = JarObs("SetCookie", mode, url, cookie, NullPtr, NullPtr,
                                         Answer(mode, timely, e.ret), <<"SetCookie">>,
                                         <<>>, 0,
                                         IF Answer(mode, timely, e.ret) = "true"
                                         THEN [done |-> TRUE, url |-> url,
                                               name |-> cookie.name, value |-> cookie.value,
                                               pre |-> jar]
                                         ELSE NoSet)
        /\ JarFrame

\* ICookieManager::DeleteCookies.
ICookieManager_DeleteCookies ==
    \E mode \in {"inline", "bridged"}, timely \in BOOLEAN, url \in {"u1", "u2", NullPtr},
       name \in {"a", NullPtr} :
        /\ mode = "inline" => timely
        /\ LET e == EngineDeleteCookies(jar, OptionalString(url), OptionalString(name))
           IN  /\ jar' = e.jar
               /\ jarLast' = JarObs("DeleteCookies", mode, url, NullCookie, name, NullPtr,
                                    Answer(mode, timely, e.ret), <<"DeleteCookies">>,
                                    <<>>, 0, NoSet)
        /\ JarFrame

\* The cookies left after n Visit calls: the engine deletes each record for
\* which Visit set deleteCookie.
AfterVisit(j, records, outs, n) ==
    j \ {records[i] : i \in {h \in 1..n : outs[h].del}}

\* The visit the engine runs with the wrapper it was handed.
RunVisit(op, mode, url, visitor, records) ==
    \E answers \in VisitAnswers(Len(records), visitor) :
        LET outs == [i \in 1..Len(records) |->
                        ICookieVisitor_Visit_Outputs(visitor, answers[i])]
            n == VisitCalls(outs)
        IN  /\ jar' = AfterVisit(jar, records, outs, n)
            /\ jarLast' = [JarObs(op, mode, url, NullCookie, NullPtr, visitor, "void",
                                   <<op>>, Visited(records, visitor, n), Len(records),
                                   NoSet)
                           EXCEPT !.records = records, !.answers = answers,
                                  !.visitCalls = n]

\* ICookieManager::VisitUrlCookies with the visit it starts: one Visit per
\* record of the url.
ICookieManager_VisitUrlCookies ==
    \E mode \in {"inline", "bridged"}, url \in {"u1", NullPtr},
       visitor \in {"given", "novisit", NullPtr} :
        IF url = NullPtr \/ visitor = NullPtr
        THEN /\ jarLast' = JarObs("VisitUrlCookies", mode, url, NullCookie, NullPtr, visitor,
                                  "void",
                                  <<>>, <<>>, 0, NoSet)
             /\ UNCHANGED jar
             /\ JarFrame
        ELSE /\ RunVisit("VisitUrlCookies", mode, url, visitor,
                         InSomeOrder(EngineUrlCookies(jar, FromASCII(url))))
             /\ JarFrame

\* ICookieManager::VisitAllCookies with the visit it starts.
ICookieManager_VisitAllCookies ==
    \E mode \in {"inline", "bridged"}, visitor \in {"given", "novisit", NullPtr} :
        IF visitor = NullPtr
        THEN /\ jarLast' = JarObs("VisitAllCookies", mode, NullPtr, NullCookie, NullPtr, visitor,
                                  "void",
                                  <<>>, <<>>, 0, NoSet)
             /\ UNCHANGED jar
             /\ JarFrame
        ELSE /\ RunVisit("VisitAllCookies", mode, NullPtr, visitor, InSomeOrder(jar))
             /\ JarFrame

NextJar ==
    \/ ICookieManager_SetCookie
    \/ ICookieManager_DeleteCookies
    \/ ICookieManager_VisitUrlCookies
    \/ ICookieManager_VisitAllCookies

(***************************************************************************)
(* Runtime: creating browser instances.                                    *)
(***************************************************************************)
\* What a call left behind: the handle create_webview returned with the
\* controller it refers to, the window mode asked of the engine, and the
\* CreateBrowser calls made.
RtObs(op, ret, ref, window, createBrowserCalls) ==
    [op |-> op, ret |-> ret, ref |-> ref, window |-> window,
     createBrowserCalls |-> createBrowserCalls,
     pre_running |-> rt_is_running, pre_handle |-> rt_handle]

InitRt ==
    /\ rt_is_running = TRUE
    /\ rt_windowless \in BOOLEAN
    /\ rt_handle = "held"
    /\ webviews = <<>>
    /\ rtLast = [op |-> "create_runtime", ret |-> "Runtime", ref |-> "IRuntime",
                 window |-> "none", createBrowserCalls |-> 0,
                 pre_running |-> TRUE, pre_handle |-> "held"]

IdleRt ==
    /\ InitRt
    /\ rt_windowless = FALSE

\* A runtime operation leaves the other components alone.
RtFrame == UNCHANGED <<lifeVars, resVars, msgVars, cookieVars, visitVars, jarVars, mgrVars, isoVars, paintVars>>

\* The CefWindowInfo IRuntime::CreateWebView builds from the settings.
WindowInfo(window_handle) ==
    IF rt_windowless THEN "windowless"
    ELSE IF window_handle # 0 THEN "child"
    ELSE "default"

\* IRuntime::CreateWebView: the controller, or null when the runtime is
\* closed or the engine's CreateBrowser fails.
CreateWebView(window_handle, engineOk) ==
    IF ~rt_is_running
    THEN [webview |-> "nullptr", window |-> "none", createBrowserCalls |-> 0]
    ELSE [webview |-> IF engineOk THEN "IWebView" ELSE "nullptr",
          window |-> WindowInfo(window_handle), createBrowserCalls |-> 1]

\* "new WebView{webview}": the handle create_webview returns.
NewWebView(webview) == "WebView"

\* create_webview on the runtime handle the host holds.
create_webview ==
    /\ rt_handle = "held"
    /\ Len(webviews) < MaxViews
    /\ \E window_handle \in {0, 1}, engineOk \in BOOLEAN :
         LET c == CreateWebView(window_handle, engineOk)
         IN  /\ webviews' = Append(webviews, [handle |-> NewWebView(c.webview),
                                              ref |-> c.webview, window |-> c.window])
             /\ rtLast' = RtObs("create_webview", NewWebView(c.webview), c.webview,
                                c.window, c.createBrowserCalls)
    /\ UNCHANGED <<rt_is_running, rt_windowless, rt_handle>>
    /\ RtFrame

\* close_runtime: IRuntime::Close(), then the Runtime wrapper is deleted.
close_runtime ==
    /\ rt_handle = "held"
    /\ rt_is_running' = FALSE
    /\ rt_handle' = "deleted"
    /\ rtLast' = RtObs("close_runtime", "void", "IRuntime", "none", 0)
    /\ UNCHANGED <<rt_windowless, webviews>>
    /\ RtFrame

\* create_webview on a runtime handle that close_runtime deleted.  The read
\* of rt->ref is a read of freed memory: the call crashes, or finds the
\* pointer still there and reaches the closed IRuntime, which the engine
\* keeps alive.
create_webview_closed ==
    /\ rt_handle = "deleted"
    /\ Len(webviews) < MaxViews
    /\ \E window_handle \in {0, 1}, crashes \in BOOLEAN :
         LET c == CreateWebView(window_handle, TRUE)
         IN  IF crashes
             THEN /\ rtLast' = RtObs("create_webview", "crash", "nullptr", "none", 0)
                  /\ UNCHANGED webviews
             ELSE /\ webviews' = Append(webviews, [handle |-> NewWebView(c.webview),
                                                   ref |-> c.webview, window |-> c.window])
                  /\ rtLast' = RtObs("create_webview", NewWebView(c.webview), c.webview,
                                     c.window, c.createBrowserCalls)
    /\ UNCHANGED <<rt_is_running, rt_windowless, rt_handle>>
    /\ RtFrame

NextRt ==
    \/ create_webview
    \/ close_runtime
    \/ create_webview_closed

(***************************************************************************)
(* One render process serving several instances.  ISubProcess is the       *)
(* process's handler and owns one MessageReceiver; every script context    *)
(* created in the process gets the same "on" function.                     *)
(***************************************************************************)
\* The instances whose browsers the process renders; each has one script
\* context, named after it.
Instances == {"A", "B"}

NoReceiver == [context |-> "nullopt", callback |-> "nullopt"]

InitIso ==
    /\ shared_receiver = NoReceiver
    /\ wire = {}
    /\ reached = {}
    /\ contexts = {}
    /\ shared_sender = "nullopt"
    /\ routed = {}

IsoFrame == UNCHANGED <<lifeVars, resVars, msgVars, cookieVars, visitVars, jarVars,
                        rtVars, mgrVars, paintVars>>

\* IWebView::SendMessage of instance i: a process message to the main frame
\* of its browser.
Instance_SendMessage(i) ==
    /\ i \notin wire
    /\ wire' = wire \cup {i}
    /\ UNCHANGED <<shared_receiver, reached, contexts, shared_sender, routed>>
    /\ IsoFrame

\* MessageReceiver::Execute, "MessageTransport.on(...)" called by the script
\* of instance i: a single function argument replaces context and callback.
Instance_On(i) ==
    \E isFunction \in BOOLEAN :
        /\ i \in contexts
        /\ shared_receiver' = IF isFunction
                              THEN [context |-> i, callback |-> i]
                              ELSE shared_receiver
        /\ UNCHANGED <<wire, reached, contexts, shared_sender, routed>>
        /\ IsoFrame

\* ISubProcess::OnProcessMessageReceived for a message to instance i, with
\* MessageReceiver::Recv: the browser and frame arguments are not looked
\* at, the callback held runs in the context held.
Instance_OnProcessMessageReceived(i) ==
    /\ i \in wire
    /\ wire' = wire \ {i}
    /\ reached' = IF shared_receiver = NoReceiver
                  THEN reached
                  ELSE reached \cup {[to |-> i, context |-> shared_receiver.context,
                                      callback |-> shared_receiver.callback]}
    /\ UNCHANGED <<shared_receiver, contexts, shared_sender, routed>>
    /\ IsoFrame

\* ISubProcess::OnContextCreated for the browser of instance i: the sender's
\* browser is replaced by it, and the context gets "send" and "on".
Instance_OnContextCreated(i) ==
    /\ contexts' = contexts \cup {i}
    /\ shared_sender' = i
    /\ UNCHANGED <<shared_receiver, wire, reached, routed>>
    /\ IsoFrame

\* MessageSender::Execute, "MessageTransport.send(string)" called by the
\* script of instance i: the process message goes to the main frame of the
\* browser the sender holds, and so to that browser's controller.
Instance_Send(i) ==
    /\ i \in contexts
    /\ routed' = routed \cup {[from |-> i, controller |-> shared_sender]}
    /\ UNCHANGED <<shared_receiver, wire, reached, contexts, shared_sender>>
    /\ IsoFrame

NextIso ==
    \E i \in Instances :
        \/ Instance_OnContextCreated(i)
        \/ Instance_Send(i)
        \/ Instance_SendMessage(i)
        \/ Instance_On(i)
        \/ Instance_OnProcessMessageReceived(i)

\* The components a specification does not exercise stay in one fixed state.
IdleLife ==
    /\ InitLife
    /\ variant = "mono"
    /\ windowless = TRUE
    /\ view_rect = [width |-> 1, height |-> 1]

IdleRes ==
    /\ InitRes
    /\ factorySet = TRUE

(***************************************************************************)
(* Off-screen rendering.  IWebViewRender caches the popup widget's         *)
(* rectangle from OnPopupSize and hands every painted buffer to the host   *)
(* with a rectangle: size and offset of the popup for a popup buffer, the  *)
(* buffer's size at the origin for the view.                               *)
(***************************************************************************)
Offsets == 0..MaxSize

\* CefRect and Rect as constructed.
ZeroRect == [x |-> 0, y |-> 0, width |-> 0, height |-> 0]

InitPaint ==
    /\ popup_rect = ZeroRect
    /\ paintLast = [op |-> "none", type |-> "PET_VIEW", hasBuffer |-> FALSE,
                    first_rect |-> ZeroRect, pre_popup |-> ZeroRect, event |-> ZeroRect,
                    rect |-> ZeroRect, hostCalls |-> <<>>]

\* A render callback leaves the other components alone.
PaintFrame == UNCHANGED <<lifeVars, resVars, msgVars, cookieVars, visitVars, jarVars,
                          rtVars, mgrVars, isoVars>>

\* A texture rectangle that takes the popup's offset from the painted
\* region.
TextureRect_FromDirtyRect(is_popup, first_rect, width, height, cached) ==
    [x |-> IF is_popup THEN first_rect.x ELSE 0,
     y |-> IF is_popup THEN first_rect.y ELSE 0,
     width |-> IF is_popup THEN first_rect.width ELSE width,
     height |-> IF is_popup THEN first_rect.height ELSE height]

\* The four assignments to _texture_rect in OnPaint.
TextureRect(is_popup, first_rect, width, height, cached) ==
    [x |-> IF is_popup THEN cached.x ELSE 0,
     y |-> IF is_popup THEN cached.y ELSE 0,
     width |-> IF is_popup THEN first_rect.width ELSE width,
     height |-> IF is_popup THEN first_rect.height ELSE height]

\* IWebViewRender::OnPaint: nothing for a null buffer; else the texture
\* rectangle is set and the buffer handed to on_frame with it.
IWebViewRender_OnPaint ==
    \E type \in {"PET_VIEW", "PET_POPUP"}, hasBuffer \in BOOLEAN,
       o \in Offsets, d \in Sizes, side \in Sizes :
        LET first_rect == [x |-> o, y |-> o, width |-> d, height |-> d]
            rect == TextureRect(type = "PET_POPUP", first_rect, side, side, popup_rect)
        IN  /\ ~hasBuffer => (o = 0 /\ d = 1 /\ side = 1)
            /\ paintLast' = [op |-> "OnPaint", type |-> type, hasBuffer |-> hasBuffer,
                             first_rect |-> IF hasBuffer THEN first_rect ELSE ZeroRect,
                             pre_popup |-> popup_rect,
                             event |-> paintLast.event,
                             rect |-> IF hasBuffer THEN rect ELSE ZeroRect,
                             hostCalls |-> IF hasBuffer THEN <<"on_frame">> ELSE <<>>]
            /\ UNCHANGED popup_rect
            /\ PaintFrame

\* IWebViewRender::OnPopupSize: the rectangle is copied into the cache.
IWebViewRender_OnPopupSize ==
    \E x \in Offsets, y \in Offsets, side \in Sizes :
        LET rect == [x |-> x, y |-> y, width |-> side, height |-> side]
        IN  /\ popup_rect' = rect
            /\ paintLast' = [op |-> "OnPopupSize", type |-> "PET_POPUP", hasBuffer |-> FALSE,
                             first_rect |-> ZeroRect, pre_popup |-> popup_rect,
                             event |-> rect, rect |-> ZeroRect, hostCalls |-> <<>>]
            /\ PaintFrame

NextPaint ==
    \/ IWebViewRender_OnPaint
    \/ IWebViewRender_OnPopupSize

Init == InitLife /\ InitRes /\ InitMsg /\ InitCookie /\ InitVisit /\ InitJar /\ InitRt /\ InitMgr /\ InitIso /\ InitPaint

Next == NextLife \/ NextRes \/ NextMsg \/ NextCookie \/ NextVisit \/ NextJar \/ NextRt \/ NextMgr \/ NextIso \/ NextPaint

Spec == Init /\ [][Next]_vars

InitOfLife == InitLife /\ IdleRes /\ InitMsg /\ InitCookie /\ InitVisit /\ IdleJar /\ IdleRt /\ InitMgr /\ InitIso /\ InitPaint

SpecLife == InitOfLife /\ [][NextLife]_vars

InitOfRes == InitRes /\ IdleLife /\ InitMsg /\ InitCookie /\ InitVisit /\ IdleJar /\ IdleRt /\ InitMgr /\ InitIso /\ InitPaint

SpecRes == InitOfRes /\ [][NextRes]_vars

InitOfMsg == InitMsg /\ IdleLife /\ IdleRes /\ InitCookie /\ InitVisit /\ IdleJar /\ IdleRt /\ InitMgr /\ InitIso /\ InitPaint

SpecMsg == InitOfMsg /\ [][NextMsg]_vars

InitOfCookie == InitCookie /\ IdleLife /\ IdleRes /\ InitMsg /\ InitVisit /\ IdleJar /\ IdleRt /\ InitMgr /\ InitIso /\ InitPaint

SpecCookie == InitOfCookie /\ [][NextCookie]_vars

\* The callers' waits end; nothing is said about the IO thread.
SpecCookieWait == InitOfCookie /\ [][NextCookie]_vars /\ WaitFairness

\* The callers' waits end and the IO thread runs what is posted to it.
SpecCookieFair == InitOfCookie /\ [][NextCookie]_vars /\ WaitFairness /\ IOFairness

InitOfVisit == InitVisit /\ IdleLife /\ IdleRes /\ InitMsg /\ InitCookie /\ IdleJar /\ IdleRt /\ InitMgr /\ InitIso /\ InitPaint

SpecVisit == InitOfVisit /\ [][NextVisit]_vars

InitOfCookieOps == InitCookie /\ InitVisit /\ IdleLife /\ IdleRes /\ InitMsg /\ IdleJar /\ IdleRt /\ InitMgr /\ InitIso /\ InitPaint

SpecCookieOps == InitOfCookieOps /\ [][NextCookieOps]_vars

InitOfJar == InitJar /\ IdleLife /\ IdleRes /\ InitMsg /\ InitCookie /\ InitVisit /\ IdleRt /\ InitMgr /\ InitIso /\ InitPaint

SpecJar == InitOfJar /\ [][NextJar]_vars

InitOfRt == InitRt /\ IdleLife /\ IdleRes /\ InitMsg /\ InitCookie /\ InitVisit /\ IdleJar /\ InitMgr /\ InitIso /\ InitPaint

SpecRt == InitOfRt /\ [][NextRt]_vars

SpecManager == InitOfCookieOps /\ [][NextManager]_vars

InitOfIso == InitIso /\ IdleLife /\ IdleRes /\ InitMsg /\ InitCookie /\ InitVisit /\ IdleJar /\ IdleRt /\ InitMgr /\ InitPaint

SpecIso == InitOfIso /\ [][NextIso]_vars

\* The off-screen render handler alone.
InitOfPaint == InitPaint /\ IdleLife /\ IdleRes /\ InitMsg /\ InitCookie /\ InitVisit /\ IdleJar /\ IdleRt /\ InitMgr /\ InitIso

SpecPaint == InitOfPaint /\ [][NextPaint]_vars

(***************************************************************************)
(* Claims about the lifecycle guard.                                       *)
(***************************************************************************)

\* C1: post-close idempotence. Once the running flag is false, no engine
\* event and no host call changes the instance state (running flag, browser
\* reference, view rect).
C1_PostCloseIdempotence ==
    [][~is_running => UNCHANGED <<is_running, browser, view_rect>>]_vars

\* The values a stopped method may return: nothing, false or null; for
\* DoClose also true, which tells the engine the close is taken care of.
SafeDefaults(op) ==
    IF op = "DoClose" THEN {"true", "false"} ELSE {"void", "false", "null"}

\* C2: every engine-invoked method checks the running flag first: invoked
\* while the flag is false it returns its safe default and invokes no host
\* callback.
C2_GuardedCallbacks ==
    (last.kind = "engine" /\ ~last.pre_running)
        => (last.hostCalls = <<>> /\ last.ret \in SafeDefaults(last.op))

CloseOps == {"Close", "close_webview", "Destructor"}

\* C10: closing is idempotent. A Close on an already-closed instance (also
\* the destructor's, after close_webview) makes no engine call and writes
\* nothing, and CloseBrowser is requested at most once per instance.
C10_CloseIdempotent ==
    /\ closeBrowserCalls <= 1
    /\ (last.op \in CloseOps /\ ~last.pre_running)
          => /\ last.engineCalls = <<>>
             /\ last.hostCalls = <<>>
             /\ ~is_running
             /\ browser = last.pre_browser
             /\ view_rect = last.pre_rect

\* The destructor's Close runs on an instance that close_webview closed.
C10_Witness ==
    /\ last.op = "Destructor"
    /\ variant # "page"
    /\ ~last.pre_running
    /\ closeBrowserCalls = 1

\* C11: OnBeforeClose is the only transition that clears the browser
\* reference and flips the running flag to false: no other operation does
\* either, and OnBeforeClose on a created instance does both.
C11_OnlyOnBeforeCloseTearsDown ==
    /\ (last.pre_browser # NoBrowser /\ browser = NoBrowser) => last.op = "OnBeforeClose"
    /\ (last.pre_running /\ ~is_running) => last.op = "OnBeforeClose"
    /\ (last.op = "OnBeforeClose" /\ last.pre_browser # NoBrowser)
          => (browser = NoBrowser /\ ~is_running)

\* C12: DoClose never vetoes a close: in every state it notifies the host
\* of the requested close and returns false.
C12_DoCloseNeverVetoes ==
    last.op = "DoClose" => (last.ret = "false" /\ last.hostCalls = <<"REQUEST_CLOSE">>)

\* C13: no controller method makes a call on the browser while the running
\* flag is false or the browser reference is absent. OnAfterCreated on a
\* running instance is the confirmation of the creation itself.
C13_NoBrowserActionWhenStopped ==
    (~last.pre_running
        \/ (last.pre_browser = NoBrowser /\ last.op # "OnAfterCreated"))
      => last.engineCalls = <<>>

(***************************************************************************)
(* Claims about the resource stream handler.                               *)
(***************************************************************************)
Transfers == {"Read", "Skip"}

\* C3: a read or skip issued before open has returned true is not accepted:
\* it returns false and reports zero bytes.
C3_TransferBeforeOpenRejected ==
    (resLast.op \in Transfers /\ resLast.pre_phase = "unopened")
        => (resLast.ret = "false" /\ resLast.bytes = 0)

\* C4: after cancel, every read and skip returns false, from whatever state
\* cancel was invoked.
C4_TransferAfterCancelFails ==
    (resLast.op \in Transfers /\ resLast.pre_cancelled) => resLast.ret = "false"

\* C5: the destruction of an adapter invokes the handler's destroy callback
\* once and then the factory's destroy_request_handler once, in that order,
\* however the stream ended; no other adapter operation invokes either, and
\* a load the factory declined has neither.
C5_DestroyOrder ==
    /\ \A r \in Reqs :
          handlers[r].destroyLog =
              IF handlers[r].st = "destroyed"
              THEN <<"destroy", "destroy_request_handler">>
              ELSE <<>>
    /\ resLast.op = "~IResourceHandler"
          => resLast.hostCalls = <<"destroy", "destroy_request_handler">>
    /\ resLast.op # "~IResourceHandler"
          => \A i \in 1..Len(resLast.hostCalls) :
                resLast.hostCalls[i] \notin {"destroy", "destroy_request_handler"}

\* An adapter that was cancelled without ever being opened is destroyed
\* while another load's adapter, already destroyed, had a different end.
C5_Witness ==
    /\ resLast.op = "~IResourceHandler"
    /\ resLast.pre_phase = "unopened"
    /\ resLast.pre_cancelled
    /\ handlers[resLast.req].st = "destroyed"
    /\ \E r \in Reqs \ {resLast.req} : handlers[r].st = "destroyed"

\* The host callbacks that end a handler's life.
DestroyCalls == {"destroy", "destroy_request_handler"}

\* C14: when the host factory returns null for a request, or no factory is
\* configured, Create / GetResourceHandler returns null to the engine: the
\* request gets no adapter, and neither destroy callback is ever invoked
\* for it.  Without a factory the host is not even asked.
C14_NullMeansNotHandled ==
    /\ ~factorySet =>
          /\ \A r \in Reqs : handlers[r].st \in {"none", "declined"}
          /\ resLast.op = "GetResourceHandler" =>
                (resLast.ret = "null" /\ resLast.hostCalls = <<>>)
    /\ \A r \in Reqs :
          /\ handlers[r].st = "declined" =>
                (handlers[r].adapter = NullHandler /\ handlers[r].destroyLog = <<>>)
          /\ handlers[r].st = "live" =>
                (handlers[r].adapter # NullHandler /\ handlers[r].host # NullHandler)
    /\ resLast.op = "GetResourceHandler" =>
          (resLast.ret = "null" <=> handlers[resLast.req].st = "declined")
    /\ (\E i \in 1..Len(resLast.hostCalls) : resLast.hostCalls[i] \in DestroyCalls) =>
          handlers[resLast.req].st = "destroyed"

\* A request the host declined stays without handler while another request
\* of the same factory has been served and its handler destroyed.
C14_Witness ==
    /\ factorySet
    /\ \E r, q \in Reqs :
          /\ handlers[r].st = "declined"
          /\ handlers[q].st = "destroyed"
          /\ resLast.op = "~IResourceHandler"

\* C15 as the specification states it: each engine load invokes the host
\* factory exactly once, every non-null host handler gets an adapter of its
\* own, and no adapter and no host handler serves two requests at a time.
C15_OneHandlerPerRequest ==
    /\ (resLast.op = "GetResourceHandler" /\ factorySet) =>
          resLast.hostCalls = <<"request">>
    /\ \A r, q \in Reqs :
          (r # q /\ Live(r) /\ Live(q)) =>
              /\ handlers[r].adapter # handlers[q].adapter
              /\ handlers[r].host # handlers[q].host

\* C15 as the code has it: with a factory configured each engine load
\* invokes the host factory exactly once, and each non-null host handler is
\* wrapped in a new adapter that serves that one request only, so no adapter
\* is shared between two requests.  Which host handler a request gets is the
\* host factory's choice.
C15_OneAdapterPerRequest ==
    /\ (resLast.op = "GetResourceHandler" /\ factorySet) =>
          resLast.hostCalls = <<"request">>
    /\ \A r, q \in Reqs :
          (r # q /\ Live(r) /\ Live(q)) => handlers[r].adapter # handlers[q].adapter

\* Two requests are being served at once, each by its own adapter, around
\* one and the same host handler.
C15_Witness ==
    \E r, q \in Reqs :
        /\ r # q /\ Live(r) /\ Live(q)
        /\ handlers[r].host = handlers[q].host
        /\ handlers[r].adapter # handlers[q].adapter
        /\ resLast.op = "GetResourceHandler"

(***************************************************************************)
(* Claims about the message transport.                                     *)
(***************************************************************************)

\* C6: no queue. A host message that arrives in the render process while no
\* script callback is registered is dropped; a dropped message is never
\* delivered later, and a callback receives only messages that arrived
\* after its registration.
C6_NoQueue ==
    \A i \in 1..Len(arrivals) :
        /\ (\A c \in 1..Len(regAt) : regAt[c] >= i) => arrivals[i].to = 0
        /\ arrivals[i].to # 0 =>
              /\ arrivals[i].to \in 1..Len(regAt)
              /\ regAt[arrivals[i].to] < i
        /\ \A j \in 1..Len(arrivals) :
              (arrivals[i].to = 0 /\ arrivals[j].to # 0) => arrivals[i].msg # arrivals[j].msg

\* A message arrived before any registration and went nowhere; a callback
\* was registered after it and got the next message, and only that one.
C6_Witness ==
    /\ Len(arrivals) >= 2
    /\ Len(regAt) >= 1
    /\ regAt[1] = 1
    /\ arrivals[1].to = 0
    /\ arrivals[2].to = 1
    /\ arrivals[2].msg = 2

\* The callbacks registered before the i-th arrival.
RegisteredBefore(i) == {c \in 1..Len(regAt) : regAt[c] < i}

Newest(cs) == CHOOSE c \in cs : \A d \in cs : d <= c

OneFunction(args) == Len(args) = 1 /\ args[1] = "function"

\* C16: registration is single-subscriber.  Each successful "on" with one
\* function argument replaces the callback and context held before, so a
\* host message that arrives later goes exactly once, and only to the
\* callback registered last; with another argument count or an argument
\* that is no function "on" returns false and the registration stays as
\* it was.
C16_SingleSubscriber ==
    /\ \A i \in 1..Len(arrivals) :
          /\ RegisteredBefore(i) # {} =>
                /\ arrivals[i].to = Newest(RegisteredBefore(i))
                /\ arrivals[i].calls = <<"Enter", "ExecuteFunction", "Exit">>
          /\ \A j \in 1..Len(arrivals) : i # j => arrivals[i].msg # arrivals[j].msg
    /\ msgLast.op = "on" =>
          /\ msgLast.ret = "true" <=> OneFunction(msgLast.args)
          /\ msgLast.ret = "true" =>
                (recv_callback = Len(regAt) /\ recv_context = liveContext)
          /\ msgLast.ret = "false" =>
                (recv_callback = msgLast.pre_callback /\ recv_context = msgLast.pre_context)

\* Two callbacks were registered one after the other, each got the message
\* that arrived while it was the newest, and a later "on" with a bad
\* argument list was refused.
C16_Witness ==
    /\ Len(regAt) = 2
    /\ Len(arrivals) >= 2
    /\ arrivals[1].to = 1
    /\ arrivals[2].to = 2
    /\ msgLast.op = "on"
    /\ msgLast.ret = "false"
    /\ recv_callback = 2

OneString(args) == Len(args) = 1 /\ args[1] = "string"

\* C17: "send" declines silently when it cannot act.  Without a browser
\* reference, with an argument count other than one, or with an argument
\* that is no string it returns false and emits no process message;
\* otherwise it emits exactly one process message with the string and
\* returns true.  Every message on its way or arrived stems from one
\* accepted call.
C17_SendDeclinesSilently ==
    /\ msgLast.op = "send" =>
          IF sender_browser # NoBrowser /\ OneString(msgLast.args)
          THEN /\ msgLast.ret = "true"
               /\ msgLast.calls = <<"SendProcessMessage">>
               /\ toBrowser # <<>>
               /\ toBrowser[Len(toBrowser)] = scriptSent
          ELSE /\ msgLast.ret = "false"
               /\ msgLast.calls = <<>>
    /\ Len(toBrowser) + Len(hostArrivals) = scriptSent

\* After one accepted send a script calls "send" with a function and is
\* refused; the one message is all there is.
C17_Witness ==
    /\ msgLast.op = "send"
    /\ msgLast.ret = "false"
    /\ msgLast.args = <<"function">>
    /\ sender_browser # NoBrowser
    /\ scriptSent = 1

HostDelivered(a) == a.delivered
ScriptDelivered(a) == a.to # 0
Payloads(as) == [i \in 1..Len(as) |-> as[i].msg]
Increasing(q) == \A i, j \in 1..Len(q) : i < j => q[i] < q[j]

\* C18: FIFO per direction.  The payloads handed to the host's on_message
\* are, in order, those the channel delivered from scripts to a running
\* controller, and the payloads handed to the script callback are, in order,
\* those it delivered from the host to a registered receiver.  Messages are
\* numbered in the order they were sent: within one direction none is
\* handed over twice or ahead of an earlier one.
C18_FifoPerDirection ==
    /\ hostGot = Payloads(SelectSeq(hostArrivals, HostDelivered))
    /\ scriptGot = Payloads(SelectSeq(arrivals, ScriptDelivered))
    /\ Increasing(hostGot)
    /\ Increasing(scriptGot)

\* Both directions have carried two messages to their receivers.
C18_Witness ==
    /\ Len(hostGot) = 2
    /\ Len(scriptGot) >= 2
    /\ msgLast.op = "IWebView::OnProcessMessageReceived"

(***************************************************************************)
(* Claims about the cookie bridge.                                         *)
(***************************************************************************)
Bridged(c) == calls[c].mode = "bridged"
Returned(c) == calls[c].pc = "returned"
Executed(c) == calls[c].engineRet # "none"
InQueue(c) == \E i \in 1..Len(ioQueue) : ioQueue[i] = c
Occurrences(c) == Cardinality({i \in 1..Len(effects) : effects[i] = c})

\* The store after the engine ran the operations of the calls in es, in
\* that order, on an empty store.
RECURSIVE StoreAfter(_)
StoreAfter(es) ==
    IF es = <<>> THEN EmptyStore
    ELSE EngineOp(calls[es[Len(es)]].op, StoreAfter(SubSeq(es, 1, Len(es) - 1))).store

\* What the engine returned for call c when its turn came.
EngineReturned(c) ==
    LET i == CHOOSE k \in 1..Len(effects) : effects[k] = c
    IN  EngineOp(calls[c].op, StoreAfter(SubSeq(effects, 1, i - 1))).ret

\* C7: a blocking bridged operation always returns: with the closure's
\* result if that was set when the wait ended, with false if the wait timed
\* out; a waiting caller returns also when the posted task never runs.
C7_AlwaysReturns ==
    /\ [][\A c \in CallIds :
            (calls[c].pc = "waiting" /\ calls'[c].pc = "returned") =>
                calls'[c].ret = IF calls[c].box.ready THEN calls[c].box.result ELSE FALSE]_vars
    /\ [](\A c \in CallIds :
            /\ calls[c].box.ready => calls[c].box.result = (calls[c].engineRet = "true")
            /\ (Bridged(c) /\ Returned(c) /\ calls[c].timedOut) => calls[c].ret = FALSE)
    /\ \A c \in CallIds : (calls[c].pc = "waiting") ~> Returned(c)

\* One bridged call got the engine's true; the next timed out and returned
\* false while its task had not run.
C7_Witness ==
    /\ Bridged(1) /\ Returned(1) /\ ~calls[1].timedOut /\ calls[1].ret = TRUE
    /\ Bridged(2) /\ Returned(2) /\ calls[2].timedOut /\ calls[2].ret = FALSE
    /\ InQueue(2)

\* C8: a timeout does not cancel the posted closure. The task of a timed-out
\* call stays posted until the IO thread runs it, it does run, its effect is
\* applied to the store, and its result reaches nobody: the call keeps the
\* false it returned.
C8_TimeoutDoesNotCancel ==
    /\ [](\A c \in CallIds : calls[c].timedOut =>
            /\ Returned(c)
            /\ calls[c].ret = FALSE
            /\ ~Executed(c) => (InQueue(c) /\ Occurrences(c) = 0)
            /\ Executed(c) => (~InQueue(c) /\ Occurrences(c) = 1))
    /\ [](store = StoreAfter(effects))
    /\ \A c \in CallIds : calls[c].timedOut ~> Executed(c)

\* A SetCookie that timed out has run since: the cookie is in the store, the
\* engine said true, the caller was told false.
C8_Witness ==
    \E c \in CallIds :
        /\ calls[c].timedOut
        /\ calls[c].op = [fn |-> "SetCookie", url |-> "valid"]
        /\ calls[c].engineRet = "true"
        /\ calls[c].ret = FALSE
        /\ store.cookie

C34_NoLostWakeup ==
    /\ [][\A c \in CallIds :
            /\ (calls[c].box.ready /\ calls[c].pc = "waiting" /\ calls'[c].pc = "returned")
                  => (~calls'[c].timedOut /\ calls'[c].ret = calls[c].box.result)
            /\ calls[c].box.ready => calls'[c].box = calls[c].box]_vars
    /\ [](\A c \in CallIds :
            (Bridged(c) /\ Returned(c) /\ ~calls[c].timedOut) =>
                /\ calls[c].box.ready
                /\ calls[c].ret = calls[c].box.result
                /\ calls[c].ret = (calls[c].engineRet = "true"))

\* The task of the first call set true while its caller had not been woken
\* yet; the caller has since returned true, and the second call's result
\* is set while its caller is still to look at it.
C34_Witness ==
    /\ Bridged(1) /\ Returned(1) /\ ~calls[1].timedOut /\ calls[1].ret = TRUE
    /\ Bridged(2) /\ calls[2].pc = "waiting" /\ calls[2].box.ready
    /\ calls[2].box.result = FALSE


(***************************************************************************)
(* Claims about thread dispatch and cookie visits.                         *)
(***************************************************************************)
TasksOf(c) == Cardinality({i \in 1..Len(ioQueue) : ioQueue[i] = c}) + Occurrences(c)

\* C19: a cookie operation that is called on the engine's IO thread runs
\* inline on the calling thread: it posts no task and never waits on a
\* result box.  Called on another thread, an operation that passed its
\* argument checks posts exactly one task to the IO thread and makes no
\* engine call of its own.
C19_InlineOrOneTask ==
    \A c \in CallIds :
        /\ calls[c].mode = "inline" =>
              /\ calls[c].pc = "returned"
              /\ ~InQueue(c)
              /\ Occurrences(c) = 1
              /\ calls[c].box = NewBox
              /\ ~calls[c].timedOut
        /\ calls[c].mode = "bridged" => TasksOf(c) = 1
        /\ visits[c].mode = "inline" =>
              /\ visits[c].pc = "returned"
              /\ visits[c].posted = 0
              /\ \A i \in 1..Len(visitQueue) : visitQueue[i] # c
              /\ visits[c].wrapper # "none" => visits[c].inlineCalls = 1
        /\ (visits[c].mode = "bridged" /\ visits[c].wrapper # "none") =>
              /\ visits[c].posted = 1
              /\ visits[c].inlineCalls = 0
              /\ Cardinality({i \in 1..Len(visitQueue) : visitQueue[i] = c}) <= 1

\* A blocking operation ran inline; a visit called on another thread has
\* its one task waiting on the IO thread.
C19_Witness ==
    \E c, d \in CallIds :
        /\ calls[c].mode = "inline"
        /\ visits[d].mode = "bridged"
        /\ visits[d].posted = 1
        /\ visitQueue = <<d>>

\* C20: the visitor's destroy callback comes only when the visit is over
\* and the engine has released the wrapper, never before or between visit
\* callbacks, and once.  A visit called on another thread returns without
\* waiting for any of this.
C20_DestroyAfterVisit ==
    \A c \in CallIds :
        /\ \A i \in 1..Len(visits[c].log) :
              visits[c].log[i] = "destroy" => i = Len(visits[c].log)
        /\ visits[c].wrapper = "destroyed" <=>
              (visits[c].log # <<>> /\ visits[c].log[Len(visits[c].log)] = "destroy")
        /\ visits[c].wrapper = "destroyed" =>
              /\ visits[c].refs = {}
              /\ visits[c].total > 0 => visits[c].over
        /\ visits[c].count <= visits[c].total
        /\ (visits[c].mode = "bridged" /\ visits[c].wrapper # "none") =>
              /\ visits[c].pc = "returned"
              /\ visits[c].returnedAt = 0

\* A visit called on another thread returned at once; the two records were
\* visited and the visitor destroyed after that.
C20_Witness ==
    \E c \in CallIds :
        /\ visits[c].mode = "bridged"
        /\ visits[c].returnedAt = 0
        /\ visits[c].log = <<"visit", "visit", "destroy">>

(***************************************************************************)
(* Claims about closing, releasing and resizing an instance.               *)
(***************************************************************************)
\* C25: the host-side owning object of an instance is destroyed only after
\* the engine has confirmed destruction: whenever close_webview releases
\* the owning object, OnBeforeClose has already been delivered for that
\* instance.
C25_ReleaseAfterConfirmedDestruction ==
    owner # "held" => closeConfirmed

\* C26: after a Resize(w, h) on a running off-screen instance whose browser
\* exists, the engine is told that the size changed and every view-rect
\* query it makes of the running instance returns w x h, on the same
\* instance: the only engine call of the Resize is WasResized.
C26_ResizeTakesEffect ==
    /\ (windowless /\ last.op = "Resize" /\ last.pre_running
           /\ last.pre_browser # NoBrowser)
       => /\ last.engineCalls = <<"WasResized">>
          /\ view_rect = resizedTo
          /\ owner = "held"
    /\ (windowless /\ resizedTo # NoRect /\ last.op = "GetViewRect" /\ is_running)
       => last.rect = resizedTo

\* A view-rect query answered with the size of an earlier Resize, other
\* operations having run in between.
C26_Witness ==
    /\ windowless
    /\ last.op = "GetViewRect"
    /\ is_running
    /\ resizedTo = [width |-> 2, height |-> 1]
    /\ last.rect = resizedTo

\* C27: after Close() or close_webview returns, the instance is closed in
\* every case, also when the call came before the engine confirmed the
\* creation: the running flag is false, the browser reference is absent,
\* and an OnAfterCreated delivered after close_webview does not populate
\* the reference.
C27_ClosedAfterClose ==
    /\ last.op \in {"Close", "close_webview"}
       => (~is_running /\ browser = NoBrowser)
    /\ (owner = "released" /\ last.op = "OnAfterCreated")
       => browser = NoBrowser

\* C28: in every reachable state of a controller, under any ordering of
\* Close, OnAfterCreated and OnBeforeClose, a false running flag implies an
\* absent browser reference.
C28_StoppedImpliesNoBrowser ==
    ~is_running => browser = NoBrowser

\* C29: a posted cookie task never uses the ICookieManager after its
\* destruction, also when a bridged call timed out or an asynchronous
\* visit returned before its task ran and the host then destroyed the
\* manager.
C29_NoTaskUsesFreedManager ==
    ~usedFreed

\* C32: after a script context is replaced (OnContextCreated for a
\* navigation or reload), a host message is never delivered to the callback
\* captured from the old context: a delivery goes to a callback registered
\* in the currently live context, and is dropped until the new script
\* registers.
C32_NoDeliveryToOldContext ==
    (msgLast.op = "OnProcessMessageReceived" /\ msgLast.calls # <<>>) =>
        msgLast.pre_context = liveContext

\* C38: delivery into script enters the captured context before invoking
\* the captured callback and exits it afterwards.  For every message that
\* arrived: with a context and a callback captured, exactly Enter, one
\* ExecuteFunction with the sent payload, Exit, in the captured context;
\* with none captured, no call at all.
C38_EnterExitBalanced ==
    /\ \A i \in 1..Len(arrivals) :
          IF arrivals[i].to # 0
          THEN /\ arrivals[i].calls = <<"Enter", "ExecuteFunction", "Exit">>
               /\ arrivals[i].context # 0
               /\ arrivals[i].msg = i
          ELSE arrivals[i].calls = <<>>
    /\ msgLast.op = "OnProcessMessageReceived" =>
          /\ msgLast.calls = arrivals[Len(arrivals)].calls
          /\ (msgLast.pre_context = 0 \/ msgLast.pre_callback = 0) <=> msgLast.calls = <<>>

\* A message was delivered into a captured context after an earlier one
\* had been dropped for want of a callback.
C38_Witness ==
    /\ Len(arrivals) >= 2
    /\ arrivals[1].to = 0
    /\ arrivals[2].to # 0
    /\ msgLast.op = "OnProcessMessageReceived"
    /\ msgLast.calls = <<"Enter", "ExecuteFunction", "Exit">>

(***************************************************************************)
(* Claims about cookie data.                                               *)
(***************************************************************************)
OfUrl(j, u) == {k \in j : k.url = Wide(u)}

\* C21: DeleteCookies(url, null name) removes all cookies of that url and no
\* cookie of another url; DeleteCookies(url, name) removes only the cookie
\* of that url with that name and leaves every other cookie in place.
C21_DeleteByUrlAndName ==
    (jarLast.op = "DeleteCookies" /\ jarLast.url # NullPtr) =>
        /\ jarLast.engineCalls = <<"DeleteCookies">>
        /\ IF jarLast.name = NullPtr
           THEN jar = jarLast.pre \ OfUrl(jarLast.pre, jarLast.url)
           ELSE jar = {k \in jarLast.pre :
                          ~(k.url = Wide(jarLast.url) /\ k.name = Wide(jarLast.name))}

\* Of three cookies the one named in the call went and the two others, one
\* of the same url and one of the same name, stayed.
C21_Witness ==
    /\ jarLast.op = "DeleteCookies"
    /\ jarLast.url = "u1"
    /\ jarLast.name = "a"
    /\ jarLast.pre = InitialCookies
    /\ Cardinality(jar) = 2

\* C22: set/visit round trip.  After a SetCookie(url, {name, value}) that
\* returned true on an empty store, a VisitUrlCookies on the same url
\* yields exactly one record, with that name and that value, whichever
\* thread either call is made from.
C22_SetVisitRoundTrip ==
    ( /\ jarLast.op = "VisitUrlCookies"
      /\ jarLast.visitor # NullPtr
      /\ jarLast.after.done
      /\ jarLast.after.pre = {}
      /\ jarLast.url = jarLast.after.url )
    => /\ jarLast.total = 1
       /\ Len(jarLast.seen) = 1
       /\ jarLast.seen[1].name = jarLast.after.name
       /\ jarLast.seen[1].value = jarLast.after.value

RequiredNull(o) ==
    \/ o.op = "SetCookie" /\ (o.url = NullPtr \/ o.cookie.ptr = NullPtr)
    \/ o.op = "SetCookie" /\ (o.cookie.name = NullPtr \/ o.cookie.value = NullPtr)
    \/ o.op = "DeleteCookies" /\ o.url = NullPtr
    \/ o.op = "VisitUrlCookies" /\ o.url = NullPtr

\* C23: every cookie operation rejects null required pointers at the
\* boundary: SetCookie with a null url, cookie, name or value, DeleteCookies
\* and VisitUrlCookies with a null url return false, or nothing, make no
\* engine call and leave the store as it was.
C23_NullRejected ==
    RequiredNull(jarLast) =>
        /\ jarLast.ret \in {"false", "void"}
        /\ jarLast.engineCalls = <<>>
        /\ jar = jarLast.pre

(***************************************************************************)
(* Claims about the runtime.                                               *)
(***************************************************************************)
\* C24: a failed browser creation is reported once by a null return at the
\* call that attempted it: when the engine's CreateBrowser fails, or the
\* runtime is already closed, create_webview returns a null handle, and
\* CreateBrowser is not called again.
C24_FailedCreationReturnsNull ==
    (rtLast.op = "create_webview" /\ rtLast.ret # "crash" /\ rtLast.ref = "nullptr") =>
        /\ rtLast.ret = "nullptr"
        /\ rtLast.createBrowserCalls <= 1

(***************************************************************************)
(* Claims about instances sharing a render process.                        *)
(***************************************************************************)
\* C30: host-to-script isolation between instances.  A message the host
\* sends to an instance is only ever delivered to a script callback
\* registered in that instance's script context, also when one render
\* process, with its single receiver, serves several instances.
C30_DeliveredToOwnContext ==
    \A d \in reached : d.context = d.to /\ d.callback = d.to

\* C33: for every visit call that is given a non-null visitor, the
\* visitor's destroy callback is invoked exactly once: never twice, and
\* once the call has returned and neither a posted task nor the engine
\* still holds the visitor, it has been invoked.  This includes a call
\* rejected early for a null url or a missing manager, a visit of zero
\* cookies and a visit stopped by the visitor.
C33_DestroyExactlyOnce ==
    \A c \in CallIds :
        visits[c].visitor =>
            LET destroys == Cardinality({i \in 1..Len(visits[c].log) :
                                            visits[c].log[i] = "destroy"})
            IN  /\ destroys <= 1
                /\ (visits[c].pc = "returned" /\ visits[c].refs = {}) => destroys = 1

\* C35: on every close path, host-initiated Close as well as a close begun
\* by the engine, the CLOSE notification of an instance is preceded by a
\* REQUEST_CLOSE notification of that instance, and CLOSE is delivered at
\* most once.  The engine keeps its own order: it calls DoClose before
\* OnBeforeClose, and OnBeforeClose once; the claim is about those runs,
\* and about the first CLOSE of each.
C35_CloseAfterRequestClose ==
    (closeConfirmed /\ closing.doClose) => closing.requested

\* C36: the view rect reported to the engine always has the width and
\* height of the most recent resize call on the instance, the initial
\* settings if none was made, including a resize issued before the engine
\* confirmed the creation of the browser.
C36_ReportsLatestResize ==
    (last.op = "GetViewRect" /\ last.pre_running) =>
        IF asked = NoRect
        THEN resizedTo = NoRect /\ last.rect = last.pre_rect
        ELSE last.rect = asked

\* C37: Read and Skip forward each engine call to the host handler exactly
\* once, return the host's boolean unchanged, and report as bytes read or
\* skipped exactly the cursor value the host wrote for that call, 0 if the
\* host wrote nothing; no cursor progress carries over from one call to
\* the next.
C37_CursorPerCall ==
    /\ resLast.op = "Read" => resLast.hostCalls = <<"read">>
    /\ resLast.op = "Skip" => resLast.hostCalls = <<"skip">>
    /\ resLast.op \in {"Read", "Skip"} =>
          /\ resLast.ret = (IF resLast.host.result THEN "true" ELSE "false")
          /\ resLast.bytes = (IF resLast.host.wrote THEN resLast.host.cursor ELSE 0)

\* A read on a stream that has already moved data, in which the host
\* returned true and wrote no cursor: zero bytes are reported.
C37_Witness ==
    /\ resLast.op = "Read"
    /\ resLast.pre_phase = "streaming"
    /\ resLast.host = [result |-> TRUE, wrote |-> FALSE, cursor |-> 0]
    /\ resLast.bytes = 0
    /\ resLast.ret = "true"

\* C39: during a visit, the visitor's outputs are propagated to the engine
\* for each record.  The delete flag the visitor sets is the delete
\* decision for exactly that record: the cookies afterwards are those
\* before without the visited records it flagged.  Returning false stops
\* the visit: the records visited are those up to and including the first
\* the visitor answered false for, all of them if there is none.  A visitor
\* with a null visit function stops at the first record, is shown nothing
\* and deletes nothing.
C39_VisitorOutputsPropagated ==
    (jarLast.op \in {"VisitUrlCookies", "VisitAllCookies"} /\ jarLast.engineCalls # <<>>) =>
        LET recs == jarLast.records
            a == jarLast.answers
            n == jarLast.visitCalls
        IN  IF jarLast.visitor = "novisit"
            THEN /\ n = (IF recs = <<>> THEN 0 ELSE 1)
                 /\ jarLast.seen = <<>>
                 /\ jar = jarLast.pre
            ELSE /\ Len(jarLast.seen) = n
                 /\ \A i \in 1..n : jarLast.seen[i].name = CefString_ToString(recs[i].name)
                 /\ \A i \in 1..(n - 1) : a[i].go
                 /\ n < Len(recs) => ~a[n].go
                 /\ \A i \in 1..Len(recs) :
                       recs[i] \in jarLast.pre
                         /\ (recs[i] \in jar <=> ~(i <= n /\ a[i].del))
                 /\ \A k \in jarLast.pre :
                       (\A i \in 1..Len(recs) : recs[i] # k) => k \in jar
                 /\ jar \subseteq jarLast.pre

\* A visit of three cookies: the first is flagged and the visit goes on,
\* the second is kept and the visitor answers false; the third is not
\* visited.
C39_Witness ==
    /\ jarLast.op = "VisitAllCookies"
    /\ jarLast.visitor = "given"
    /\ Len(jarLast.records) = 3
    /\ jarLast.visitCalls = 2
    /\ jarLast.answers[1] = [go |-> TRUE, del |-> TRUE]
    /\ jarLast.answers[2] = [go |-> FALSE, del |-> FALSE]
    /\ jar = jarLast.pre \ {jarLast.records[1]}

\* C31: script-to-host routing.  A MessageTransport.send executed in the
\* script context of an instance is delivered to the on_message callback of
\* that instance's controller and to no other controller, also after a
\* later script context of the same render process has overwritten the
\* sender's browser reference.
C31_SentToOwnController ==
    \A m \in routed : m.controller = m.from

====
